---- MODULE Spec2Model ----
(***************************************************************************)
(* A model of the Picker Tool (picker_gui.py, picker_gui_utils.py,         *)
(* picker_enums.py): the shapes of one tab's graphics scene, the           *)
(* mirror / align operations of PickerWindow and the selection state       *)
(* machine of GraphicsView.                                                *)
(*                                                                         *)
(* Numbers.  Python floats are modelled as exact rationals <<n, d>> in     *)
(* lowest terms with d > 0; rounding of IEEE doubles is not modelled.      *)
(* Points are pairs <<x, y>> of rationals.                                 *)
(*                                                                         *)
(* Objects.  A graphics item is a record; the scene is the function        *)
(* `items` from item identities to records.  The two mutable Python lists  *)
(* a button holds (curr_coords, sel_objs) carry the identity of the list   *)
(* object beside its value (coords_id, names_id), so that sharing a list   *)
(* and copying it are different things.                                    *)
(***************************************************************************)
EXTENDS Integers, Sequences, FiniteSets, TLC

VARIABLES
    items,          \* the scene of the current tab: item id -> item record
    selected,       \* ids of the items whose isSelected() is true
    ref_item,       \* GraphicsScene.ref_item: an item id, or None
    err,            \* exception raised by the last handler, "none" if it returned
    hist,           \* the last operations (most recent first), with their pre-states
    nops,           \* number of operations performed
    old_sel_items,  \* GraphicsView.old_sel_items: the persisted selection, a list
    mode,           \* GraphicsView.mode; "unset" while the attribute does not exist
    drag,           \* GraphicsView.drag, read for its truth only (None is FALSE)
    initial_mouse_pos, \* GraphicsView.initial_mouse_pos: a view point, or None
    namespace,      \* GraphicsView.namespace
    maya_sel,       \* the names selected in the host application
    left_down,      \* the left button is held: a press awaits its release
    grabber,        \* Qt: the item that took the press and receives the release
    rubberBanding,  \* Qt: the view started a rubber band at the press
    pp_item,        \* PickerWindow.pp_item: the button of the picker preview
    hist_len,       \* how many operations hist keeps
    tabs,           \* the tabs of tab_widget in order: name, and scene / view when parked
    curr_tab,       \* tab_widget.currentIndex(), counted from 1
    edit_mode,      \* PickerWindow.edit_mode
    files,          \* the XML files on disk: path -> <<document>>, <<>> if there is none
    disk,           \* the image files that exist on disk
    removed,        \* the items taken out of the scene that ref_item still refers to
    tab_scenes,     \* tab_widget.widget(k).scene() of each tab: a scene identity
    tabs_dict,      \* PickerWindow.tabs_dict: tab index (from 0) -> scene identity
    curr_scene,     \* PickerWindow.curr_scene: a scene identity, or None
    viewport,       \* the display settings of the host's active model editor
    zoom,           \* GraphicsView.zoom of the view shown
    view_scale      \* the scale of the view's transform, as <<a, b>> for 5^a * 2^b

\* the window around the current tab
widgetVars == <<tab_scenes, tabs_dict, curr_scene, viewport, zoom, view_scale>>

windowVars == <<pp_item, hist_len, tabs, curr_tab, edit_mode, files, disk, removed,
                widgetVars>>

viewVars == <<old_sel_items, mode, drag, initial_mouse_pos, namespace, maya_sel,
              left_down, grabber, rubberBanding, windowVars>>

vars == <<items, selected, ref_item, err, hist, nops, old_sel_items, mode, drag,
          initial_mouse_pos, namespace, maya_sel, left_down, grabber, rubberBanding,
          windowVars>>

-----------------------------------------------------------------------------
(* Bounds of the model *)

MaxOps == 2

MaxShapes == 5

\* the editing handlers run in one behaviour
MaxEdits == 1

\* the runs of save_xml_file / load_xml_file in one behaviour
MaxFileOps == 2

\* the paths the file dialogs return
XmlPaths == {"picker.xml", "other.xml"}

(* Program constants *)

MINIMUM_SIZE == 25

\* Python's None where an item is expected (item ids start at 1)
NoItem == 0

\* Python's None where a point is expected
NoPoint == <<>>

\* Python's None where a view point is expected (view points start at 0)
NoPos == -1

\* Python's None where a namespace is expected
NoNamespace == "<None>"

SHAPES == <<"Rounded Rect", "Rect", "Custom">>

MIRROR_ONS == <<"World", "Ref Shape">>

MIRROR_TYPES == <<"Duplicate", "Use Existing">>

-----------------------------------------------------------------------------
(* Exact arithmetic standing for the float arithmetic of the source *)

Abs(x) == IF x < 0 THEN -x ELSE x

RECURSIVE GCD(_, _)
GCD(a, b) == IF b = 0 THEN a ELSE GCD(b, a % b)

\* the rational n/d (d > 0) in lowest terms
Rat(n, d) ==
    LET g == GCD(Abs(n), d) IN <<n \div g, d \div g>>

R(n) == <<n, 1>>

RAdd(a, b) == Rat(a[1] * b[2] + b[1] * a[2], a[2] * b[2])

RNeg(a) == <<-a[1], a[2]>>

RSub(a, b) == RAdd(a, RNeg(b))

RMul(a, b) == Rat(a[1] * b[1], a[2] * b[2])

\* a / b for b # 0
RDiv(a, b) ==
    IF b[1] > 0 THEN Rat(a[1] * b[2], a[2] * b[1])
    ELSE Rat(-(a[1] * b[2]), a[2] * (-b[1]))

RLeq(a, b) == a[1] * b[2] <= b[1] * a[2]

QPointF(x, y) == <<x, y>>

-----------------------------------------------------------------------------
(* GraphicsButton *)

\* QtGui.QPolygonF(rect) for the rectangle (0, 0, w, h): its closed outline
RectPolygon(rect) ==
    << QPointF(R(0), R(0)), QPointF(R(rect.w), R(0)), QPointF(R(rect.w), R(rect.h)),
       QPointF(R(0), R(rect.h)), QPointF(R(0), R(0)) >>

\* the scaled points of update_polygon: (x * width / 25, y * height / 25)
ScaledCoords(coords, rect) ==
    LET scale_width_factor  == RDiv(R(rect.w), R(MINIMUM_SIZE))
        scale_height_factor == RDiv(R(rect.h), R(MINIMUM_SIZE))
    IN  [i \in 1..Len(coords) |->
            QPointF(RMul(coords[i][1], scale_width_factor),
                    RMul(coords[i][2], scale_height_factor))]

\* GraphicsButton.update_polygon(new_polygon_coords); <<>> stands for a falsy
\* argument (None or the empty list); new_id is the identity of the list passed
update_polygon(b, new_polygon_coords, new_id) ==
    IF b.curr_shape # SHAPES[3]
    THEN [b EXCEPT !.set_polygon = RectPolygon(b.set_rect)]
    ELSE IF new_polygon_coords = <<>>
         THEN IF b.curr_coords = <<>>
              THEN b
              ELSE [b EXCEPT !.set_polygon = ScaledCoords(b.curr_coords, b.set_rect)]
         ELSE [b EXCEPT !.curr_coords = new_polygon_coords,
                        !.coords_id = new_id,
                        !.set_polygon = ScaledCoords(new_polygon_coords, b.set_rect)]

\* update_bounding_rect that stores the rectangle and leaves the polygon
update_bounding_rect_only(b, new_rect) == [b EXCEPT !.set_rect = new_rect]

\* GraphicsButton.update_bounding_rect(new_rect)
update_bounding_rect(b, new_rect) ==
    update_polygon([b EXCEPT !.set_rect = new_rect], <<>>, 0)

\* GraphicsButton.__init__(main, sel_list, **kwargs) with the keyword arguments
\* set_rect, brush_col, text, curr_shape, curr_coords given
GraphicsButton(main, sel_list, names_id, set_rect, brush_col, text, curr_shape, curr_coords, coords_id) ==
    [ kind        |-> "GraphicsButton",
      pos         |-> QPointF(R(0), R(0)),
      z           |-> R(0),
      sel_objs    |-> sel_list,
      names_id    |-> names_id,
      brush_col   |-> brush_col,
      text        |-> text,
      set_rect    |-> set_rect,
      curr_shape  |-> curr_shape,
      curr_coords |-> curr_coords,
      coords_id   |-> coords_id,
      set_polygon |-> curr_coords,
      highlight   |-> FALSE,
      flags       |-> IF main THEN {"ItemIsSelectable", "ItemIsMovable"} ELSE {} ]

\* QGraphicsItem.setPos
setPos(b, p) == [b EXCEPT !.pos = p]

-----------------------------------------------------------------------------
(* PickerWindow.get_center / convert_from_center *)

\* get_center of the item `id` of `scene` (None for no item)
get_center(scene, id) ==
    IF id = NoItem THEN NoPoint
    ELSE LET item   == IF id \in DOMAIN scene THEN scene[id] ELSE removed[id]
             x_dist == RDiv(R(item.set_rect.w), R(2))
             y_dist == RDiv(R(item.set_rect.h), R(2))
         IN  QPointF(RAdd(item.pos[1], x_dist), RAdd(item.pos[2], y_dist))

\* the center handed back as if it were the top-left corner
convert_from_center_no_half(center, item) == center

convert_from_center(center, item) ==
    LET x_dist == RDiv(R(item.set_rect.w), R(2))
        y_dist == RDiv(R(item.set_rect.h), R(2))
    IN  QPointF(RSub(center[1], x_dist), RSub(center[2], y_dist))

-----------------------------------------------------------------------------
(* Lists of items and list objects *)

Min(S) == CHOOSE x \in S : \A y \in S : x <= y

\* QGraphicsScene.selectedItems(), here in ascending order of identity
RECURSIVE SortedSeq(_)
SortedSeq(S) ==
    IF S = {} THEN <<>> ELSE <<Min(S)>> \o SortedSeq(S \ {Min(S)})

selectedItems(sel) == SortedSeq(sel)

\* the items of the list that a loop reaches before it meets an image, which
\* has no set_rect (AttributeError in get_center / convert_from_center)
before_image(scene, list) ==
    LET images == {k \in 1..Len(list) : scene[list[k]].kind = "GraphicsPixmap"}
    IN  IF images = {} THEN list ELSE SubSeq(list, 1, Min(images) - 1)

\* the item id, in the scene or taken out of it, is an image
is_image(scene, id) ==
    /\ id # NoItem
    /\ (IF id \in DOMAIN scene THEN scene[id] ELSE removed[id]).kind = "GraphicsPixmap"

\* the loop over the list meets an image
meets_image(scene, list) == before_image(scene, list) # list

\* identity given to a newly constructed item
FreshItemId(scene) ==
    LET used == DOMAIN scene \cup DOMAIN removed
    IN  Min((1..(Cardinality(used) + 1)) \ used)

\* identity of a newly allocated list of points / of names
FreshCoordsId(scene) ==
    LET used == {scene[i].coords_id : i \in {j \in DOMAIN scene : ~is_image(scene, j)}}
    IN  Min((1..(Cardinality(used) + 1)) \ used)

FreshNamesId(scene) ==
    LET used == {scene[i].names_id : i \in {j \in DOMAIN scene : ~is_image(scene, j)}}
    IN  Min((1..(Cardinality(used) + 1)) \ used)

\* a copy that is the same list object (no copy at all)
alias_coords(scene, id) == id

\* copy.deepcopy(item.curr_coords): a new list object
deepcopy_coords(scene, id) == FreshCoordsId(scene)

\* copy.deepcopy(item.sel_objs): a new list object
deepcopy_names(scene, id) == FreshNamesId(scene)

\* assignments coord[0] = ..., coord[1] = ... through the list object `id`:
\* every button that holds this object sees the new values
write_coords(scene, id, value) ==
    [i \in DOMAIN scene |->
        IF ~is_image(scene, i) /\ scene[i].coords_id = id
        THEN [scene[i] EXCEPT !.curr_coords = value]
        ELSE scene[i]]

-----------------------------------------------------------------------------
(* The record of an operation, kept in hist with the state it started from *)

OpRec(op, mirror_x, mirror_y, mirror_on, mirror_type) ==
    [ op |-> op, mirror_x |-> mirror_x, mirror_y |-> mirror_y,
      mirror_on |-> mirror_on, mirror_type |-> mirror_type,
      sel |-> selected, ref |-> ref_item, items |-> items ]

\* hist with rec put in front, cut to the hist_len most recent operations
Kept(rec) ==
    <<rec>> \o SubSeq(hist, 1, IF Len(hist) < hist_len THEN Len(hist) ELSE hist_len - 1)

Record(rec) ==
    /\ hist' = Kept(rec)
    /\ nops' = nops + 1

-----------------------------------------------------------------------------
(* PickerWindow.mirror_sel_btns *)

\* a mirror that never falls back to the world axis
no_fallback_mirror_on(mirror_on, ref) == mirror_on

\* "If the mirror settings are set to ref shape, but none have been set, then
\* use the world axis."
effective_mirror_on(mirror_on, ref) ==
    IF mirror_on = MIRROR_ONS[2] /\ ref = NoItem THEN MIRROR_ONS[1] ELSE mirror_on

\* x_center_new = ref + x_diff: the difference re-applied with the wrong sign
reflect_keep(c, r) == RAdd(r, RSub(c, r))

\* about the reference center r: x_diff = c - r; x_center_new = r - x_diff
reflect_about(c, r) == RSub(r, RSub(c, r))

mirrored_center(c, ref_center, mirror_x, mirror_y, mirror_on) ==
    IF mirror_on = MIRROR_ONS[2]
    THEN QPointF(IF mirror_x THEN reflect_about(c[1], ref_center[1]) ELSE c[1],
                 IF mirror_y THEN reflect_about(c[2], ref_center[2]) ELSE c[2])
    ELSE IF mirror_on = MIRROR_ONS[1]
    THEN QPointF(IF mirror_x THEN RNeg(c[1]) ELSE c[1],
                 IF mirror_y THEN RNeg(c[2]) ELSE c[2])
    ELSE c

\* the loop that writes MINIMUM_SIZE - x into coord[1] instead of coord[0]
mirror_xs_index_slip(coords) ==
    [i \in 1..Len(coords) |->
        <<coords[i][1], RSub(R(MINIMUM_SIZE), coords[i][1])>>]

\* "Mirror the xs of the new_coords": coord[0] = MINIMUM_SIZE - coord[0]
mirror_xs(coords) ==
    [i \in 1..Len(coords) |->
        <<RSub(R(MINIMUM_SIZE), coords[i][1]), coords[i][2]>>]

\* a loop over the ys that leaves the points as they are
mirror_ys_skipped(coords) == coords

\* "Mirror the ys of the new_coords": coord[1] = MINIMUM_SIZE - coord[1]
mirror_ys(coords) ==
    [i \in 1..Len(coords) |->
        <<coords[i][1], RSub(R(MINIMUM_SIZE), coords[i][2])>>]

mirrored_coords(coords, mirror_x, mirror_y) ==
    LET xs == IF mirror_x THEN mirror_xs(coords) ELSE coords
    IN  IF mirror_y THEN mirror_ys(xs) ELSE xs

\* one pass of the body of "for item in sel_items" on the scene
mirror_item(scene, id, ref_center, mirror_x, mirror_y, mirror_on, mirror_type) ==
    LET item             == scene[id]
        curr_item_center == get_center(scene, id)
        new_rect         == item.set_rect
        new_coords_id    == deepcopy_coords(scene, item.coords_id)
        new_center       == mirrored_center(curr_item_center, ref_center,
                                            mirror_x, mirror_y, mirror_on)
        new_shape_coord  == convert_from_center(new_center, item)
        new_coords       == mirrored_coords(item.curr_coords, mirror_x, mirror_y)
        written          == write_coords(scene, new_coords_id, new_coords)
    IN  IF mirror_type = MIRROR_TYPES[1]
        THEN LET new_item_sel == deepcopy_names(written, item.names_id)
                 new_polygon  == update_polygon(
                                    GraphicsButton(TRUE, item.sel_objs, new_item_sel,
                                                   new_rect, item.brush_col, item.text,
                                                   item.curr_shape, new_coords,
                                                   new_coords_id),
                                    <<>>, 0)
             IN  written @@ (FreshItemId(written) :> setPos(new_polygon, new_shape_coord))
        ELSE IF mirror_type = MIRROR_TYPES[2]
        THEN [written EXCEPT ![id] =
                update_polygon(
                    update_bounding_rect(setPos(written[id], new_shape_coord), new_rect),
                    new_coords, new_coords_id)]
        ELSE written

RECURSIVE mirror_loop(_, _, _, _, _, _, _)
mirror_loop(scene, sel_items, ref_center, mirror_x, mirror_y, mirror_on, mirror_type) ==
    IF sel_items = <<>> THEN scene
    ELSE mirror_loop(
            mirror_item(scene, Head(sel_items), ref_center, mirror_x, mirror_y,
                        mirror_on, mirror_type),
            Tail(sel_items), ref_center, mirror_x, mirror_y, mirror_on, mirror_type)

\* what mirror_sel_btns makes of the scene: the items it leaves and the exception
\* it raises ("none" when it returns)
mirror_outcome(scene, sel, ref, mirror_x, mirror_y, mirror_on_combo, type_combo) ==
    LET sel_items == selectedItems(sel)
        mirror_on == effective_mirror_on(mirror_on_combo, ref)
        ref_item_center == IF mirror_on = MIRROR_ONS[2]
                           THEN get_center(scene, ref) ELSE NoPoint
    IN  IF sel_items = <<>> \/ (~mirror_x /\ ~mirror_y)
        THEN \* nothing selected, or no axis set (a message is printed)
             [items |-> scene, err |-> "none"]
        ELSE IF mirror_on = MIRROR_ONS[2] /\ is_image(scene, ref)
        THEN \* get_center of a reference that is an image
             [items |-> scene, err |-> "AttributeError"]
        ELSE IF mirror_on = MIRROR_ONS[2] /\ ref_item_center = NoPoint
        THEN \* ref_item_center.x() on None, at the first item
             [items |-> scene, err |-> "AttributeError"]
        ELSE [items |-> mirror_loop(scene, before_image(scene, sel_items),
                                    ref_item_center, mirror_x, mirror_y, mirror_on,
                                    type_combo),
              err |-> IF meets_image(scene, sel_items) THEN "AttributeError" ELSE "none"]

mirror_sel_btns(mirror_x, mirror_y, mirror_on_combo, type_combo) ==
    LET out == mirror_outcome(items, selected, ref_item, mirror_x, mirror_y,
                              mirror_on_combo, type_combo)
    IN  /\ nops < MaxOps
        /\ Cardinality(DOMAIN out.items) <= MaxShapes
        /\ Record(OpRec("mirror_sel_btns", mirror_x, mirror_y, mirror_on_combo, type_combo))
        /\ items' = out.items
        /\ err' = out.err
        /\ UNCHANGED <<selected, ref_item>>
        /\ UNCHANGED viewVars

-----------------------------------------------------------------------------
(* PickerWindow.align_by_x / align_by_y *)

\* the sum of the top-left x of the items (the half width forgotten)
x_total_top_left(scene, sel_items) ==
    LET f[i \in 0..Len(sel_items)] ==
            IF i = 0 THEN R(0)
            ELSE RAdd(f[i - 1], scene[sel_items[i]].pos[1])
    IN  f[Len(sel_items)]

\* x_total = 0.0; for item in sel_items: x_total += self.get_center(item).x()
x_total(scene, sel_items) ==
    LET f[i \in 0..Len(sel_items)] ==
            IF i = 0 THEN R(0)
            ELSE RAdd(f[i - 1], get_center(scene, sel_items[i])[1])
    IN  f[Len(sel_items)]

\* y_total = 0.0; for item in sel_items: y_total += self.get_center(item).y()
y_total(scene, sel_items) ==
    LET f[i \in 0..Len(sel_items)] ==
            IF i = 0 THEN R(0)
            ELSE RAdd(f[i - 1], get_center(scene, sel_items[i])[2])
    IN  f[Len(sel_items)]

\* item.setX(x): the center coordinate used as the top-left one
set_top_left_x(scene, sel, x) ==
    [i \in DOMAIN scene |->
        IF i \in sel THEN [scene[i] EXCEPT !.pos[1] = x] ELSE scene[i]]

\* item.setX(convert_from_center(QPointF(x, 0), item).x()) for the items of sel
set_center_x(scene, sel, x) ==
    [i \in DOMAIN scene |->
        IF i \in sel
        THEN [scene[i] EXCEPT !.pos[1] =
                convert_from_center(QPointF(x, R(0)), scene[i])[1]]
        ELSE scene[i]]

\* item.setY(convert_from_center(QPointF(0, y), item).y()) for the items of sel
set_center_y(scene, sel, y) ==
    [i \in DOMAIN scene |->
        IF i \in sel
        THEN [scene[i] EXCEPT !.pos[2] =
                convert_from_center(QPointF(R(0), y), scene[i])[2]]
        ELSE scene[i]]

align_by_x ==
    LET sel_items == selectedItems(selected) IN
    /\ nops < MaxOps
    /\ Record(OpRec("align_by_x", FALSE, FALSE, "-", "-"))
    /\ UNCHANGED <<selected, ref_item>>
    /\ UNCHANGED viewVars
    /\ IF ref_item # NoItem
       THEN IF is_image(items, ref_item)
            THEN \* get_center of a reference that is an image
                 /\ err' = "AttributeError"
                 /\ UNCHANGED items
            ELSE /\ items' = set_center_x(items,
                                  {i \in selected : \E k \in 1..Len(before_image(items, sel_items)) :
                                                       before_image(items, sel_items)[k] = i},
                                  get_center(items, ref_item)[1])
                 /\ err' = IF meets_image(items, sel_items) THEN "AttributeError" ELSE "none"
       ELSE IF Len(sel_items) = 0
       THEN \* x_total / len(sel_items) with nothing selected
            /\ err' = "ZeroDivisionError"
            /\ UNCHANGED items
       ELSE IF meets_image(items, sel_items)
       THEN \* get_center of an image while the centers are added up
            /\ err' = "AttributeError"
            /\ UNCHANGED items
       ELSE /\ items' = set_center_x(items, selected,
                            RDiv(x_total(items, sel_items), R(Len(sel_items))))
            /\ err' = "none"

align_by_y ==
    LET sel_items == selectedItems(selected) IN
    /\ nops < MaxOps
    /\ Record(OpRec("align_by_y", FALSE, FALSE, "-", "-"))
    /\ UNCHANGED <<selected, ref_item>>
    /\ UNCHANGED viewVars
    /\ IF ref_item # NoItem
       THEN IF is_image(items, ref_item)
            THEN \* get_center of a reference that is an image
                 /\ err' = "AttributeError"
                 /\ UNCHANGED items
            ELSE /\ items' = set_center_y(items,
                                  {i \in selected : \E k \in 1..Len(before_image(items, sel_items)) :
                                                       before_image(items, sel_items)[k] = i},
                                  get_center(items, ref_item)[2])
                 /\ err' = IF meets_image(items, sel_items) THEN "AttributeError" ELSE "none"
       ELSE IF Len(sel_items) = 0
       THEN \* y_total / len(sel_items) with nothing selected
            /\ err' = "ZeroDivisionError"
            /\ UNCHANGED items
       ELSE IF meets_image(items, sel_items)
       THEN \* get_center of an image while the centers are added up
            /\ err' = "AttributeError"
            /\ UNCHANGED items
       ELSE /\ items' = set_center_y(items, selected,
                            RDiv(y_total(items, sel_items), R(Len(sel_items))))
            /\ err' = "none"

-----------------------------------------------------------------------------
(* PickerWindow.set_ref_item / clear_ref_item *)

\* set_ref_item(item): item is the list [over_item] passed by the context menu,
\* or None (NoItem) when the Set Ref button is clicked; then sel_items[0] is the
\* first of selectedItems(), whose order the scene does not fix
set_ref_item(item) ==
    /\ nops < MaxOps
    /\ item # NoItem => item \in DOMAIN items
    /\ Record(OpRec("set_ref_item", FALSE, FALSE, "-", "-"))
    /\ err' = "none"
    /\ UNCHANGED <<items, selected>>
    /\ UNCHANGED viewVars
    /\ IF item # NoItem
       THEN ref_item' = item
       ELSE IF selected = {}
       THEN ref_item' = ref_item
       ELSE \E first \in selected : ref_item' = first

clear_ref_item ==
    /\ nops < MaxOps
    /\ Record(OpRec("clear_ref_item", FALSE, FALSE, "-", "-"))
    /\ err' = "none"
    /\ ref_item' = NoItem
    /\ UNCHANGED <<items, selected>>
    /\ UNCHANGED viewVars

-----------------------------------------------------------------------------
(* GraphicsPixmap, GraphicsScene.highlight_items, the host application *)

\* GraphicsPixmap.__init__(image, good_img)
GraphicsPixmap(image, good_img) ==
    [ kind      |-> "GraphicsPixmap",
      pos       |-> QPointF(R(0), R(0)),
      z         |-> R(0),
      file_path |-> image,
      good_img  |-> good_img,
      flags     |-> {"ItemIsSelectable", "ItemIsMovable"} ]

\* the flags set_edit_mode gives an item: setFlags(edit_flags) for a button,
\* GraphicsPixmap.set_edit_mode(editable) for an image
flags_of_mode(item, editable) ==
    IF item.kind = "GraphicsPixmap"
    THEN (IF editable THEN {"ItemIsSelectable", "ItemIsMovable"} ELSE {})
    ELSE (IF editable THEN {"ItemIsSelectable", "ItemIsMovable"}
          ELSE {"ItemIsSelectable"})

\* the loop of set_edit_mode over the items of one scene
set_edit_mode(scene, editable) ==
    [i \in DOMAIN scene |-> [scene[i] EXCEPT !.flags = flags_of_mode(scene[i], editable)]]

\* highlight_items: every button gets highlight_button(it is selected); a
\* pixmap is skipped
highlight_items(scene, sel) ==
    [i \in DOMAIN scene |->
        IF scene[i].kind = "GraphicsPixmap" THEN scene[i]
        ELSE [scene[i] EXCEPT !.highlight = (i \in sel)]]

\* the nodes of the host scene: cmds.select(name, add=True) raises ValueError
\* for any other name
MayaNodes == {"ctrl_a", "ctrl_b", "ctrl_d", "rig:ctrl_a", "rig:ctrl_b", "rig:ctrl_c"}

\* the elements of a Python list
set_of(list) == {list[k] : k \in 1..Len(list)}

\* the names selected as they are stored, whatever the namespace of the view
select_items_maya_unqualified(scene, sel, ns) ==
    UNION { set_of(scene[i].sel_objs) : i \in {j \in sel : scene[j].kind # "GraphicsPixmap"} }
    \cap MayaNodes

\* clear_maya_select() then select_items_maya(): the host selection left, the
\* names that do not resolve being printed and skipped
select_items_maya(scene, sel, ns) ==
    LET base_str == IF ns # NoNamespace /\ ns # "" THEN ns \o ":" ELSE ""
        wanted   == UNION { {base_str \o obj : obj \in set_of(scene[i].sel_objs)} :
                            i \in {j \in sel : scene[j].kind # "GraphicsPixmap"} }
    IN  wanted \cap MayaNodes

-----------------------------------------------------------------------------
(* The scenes the mirror / align operations start from: buttons made by       *)
(* create_btn or load_xml_file and dragged into place, some of them selected. *)

DefaultCoords ==
    << <<R(0), R(0)>>, <<R(MINIMUM_SIZE), R(0)>>,
       <<R(MINIMUM_SIZE), R(MINIMUM_SIZE)>>, <<R(0), R(MINIMUM_SIZE)>> >>

\* a normalized custom outline (its longer extent is MINIMUM_SIZE)
CustomCoords ==
    << <<R(0), R(0)>>, <<R(MINIMUM_SIZE), R(10)>>, <<R(5), R(MINIMUM_SIZE)>> >>

\* a button as the scene holds it after it was placed at pos
Placed(pos, w, h, shape, coords, coords_id, names, names_id, col, text) ==
    setPos(update_polygon(
               GraphicsButton(TRUE, names, names_id, [w |-> w, h |-> h], col, text,
                              shape, coords, coords_id), <<>>, 0),
           pos)

Templates ==
    << Placed(<<R(0), R(0)>>, 25, 25, SHAPES[2], DefaultCoords, 1,
              <<"ctrl_a">>, 1, <<155, 0, 155>>, ""),
       Placed(<<R(10), R(-20)>>, 40, 30, SHAPES[3], CustomCoords, 2,
              <<"ctrl_b", "ctrl_c">>, 2, <<0, 200, 10>>, "L"),
       Placed(<<R(-35), R(5)>>, 60, 25, SHAPES[1], DefaultCoords, 1,
              <<>>, 3, <<155, 0, 155>>, "hip"),
       Placed(<<Rat(-25, 2), R(40)>>, 25, 50, SHAPES[3], CustomCoords, 2,
              <<"ctrl_d">>, 4, <<10, 20, 30>>, "R") >>

\* create_picker_display: the preview button, main=False, with the rectangle of
\* the width / height spin boxes, the color of the color button and no text;
\* shape and points are the defaults of GraphicsButton.__init__
PreviewAsCreated ==
    GraphicsButton(FALSE, <<>>, 0, [w |-> 25, h |-> 25], <<155, 0, 155>>, "",
                   SHAPES[1], DefaultCoords, 1)

\* a tab of tab_widget.  The scene and the view of the current tab are the
\* variables items, selected, ...; a tab that is not shown keeps them in state
Tab(name, state) == [name |-> name, state |-> state]

\* the display settings of the host's model editor as the user has them
UserViewport == {"allObjects", "grid", "manipulators", "headsUpDisplay"}

\* the view of a new tab: self.zoom = 5, the identity transform (5^0 * 2^0)
NewZoom == [zoom |-> 5, view_scale |-> <<0, 0>>]

\* the bookkeeping of a window with n tabs, made one after the other by
\* create_tab, the first of them shown and not zoomed
WidgetsAsBuilt(n) ==
    /\ tab_scenes = [k \in 1..n |-> k]
    /\ tabs_dict = [k \in 0..(n - 1) |-> k + 1]
    /\ curr_scene = 1
    /\ viewport = UserViewport
    /\ zoom = NewZoom.zoom
    /\ view_scale = NewZoom.view_scale

\* the window in edit mode with the one tab "Body" shown, no file written yet
OneTabWindow ==
    /\ tabs = <<Tab("Body", <<>>)>>
    /\ curr_tab = 1
    /\ edit_mode = TRUE
    /\ files = [path \in XmlPaths |-> <<>>]
    /\ disk = {}
    /\ removed = <<>>
    /\ WidgetsAsBuilt(1)

\* the scene made of the templates T, numbered from 1
SceneOf(T) ==
    LET order == SortedSeq(T)
    IN  [i \in 1..Len(order) |-> Templates[order[i]]]

Init ==
    /\ \E T \in SUBSET (1..Len(Templates)), sel \in SUBSET (1..3) :
          /\ Cardinality(T) \in {2, 3}
          /\ sel \subseteq 1..Cardinality(T)
          /\ items = highlight_items(SceneOf(T), sel)
          /\ selected = sel
          \* the view after a rubber band over sel
          /\ old_sel_items = SortedSeq(sel)
          /\ maya_sel = select_items_maya(SceneOf(T), sel, NoNamespace)
    /\ mode = "replace"
    /\ drag = FALSE
    /\ initial_mouse_pos = 0
    /\ namespace = NoNamespace
    /\ left_down = FALSE
    /\ grabber = NoItem
    /\ rubberBanding = FALSE
    /\ ref_item = NoItem
    /\ err = "none"
    /\ hist = <<>>
    /\ nops = 0
    /\ pp_item = PreviewAsCreated
    /\ hist_len = 2
    /\ OneTabWindow

Next ==
    \/ \E mirror_x \in BOOLEAN, mirror_y \in BOOLEAN,
          on \in {MIRROR_ONS[1], MIRROR_ONS[2]},
          type \in {MIRROR_TYPES[1], MIRROR_TYPES[2]} :
            mirror_sel_btns(mirror_x, mirror_y, on, type)
    \/ align_by_x
    \/ align_by_y
    \/ \E item \in {NoItem} \cup DOMAIN items : set_ref_item(item)
    \/ clear_ref_item

Spec == Init /\ [][Next]_vars

-----------------------------------------------------------------------------
(* GraphicsView: the selection state machine of the left mouse button.       *)
(* View points: point p of 1..n lies on item p of the scene, the points 0    *)
(* and n+1 on the empty canvas.  Mouse moves have no handler in the program; *)
(* what they did shows at the release (the point, the item under it, the     *)
(* items the rubber band crossed).                                           *)

Points == 0..(Cardinality(DOMAIN items) + 1)

\* QGraphicsView.itemAt(pos)
itemAt(pos) == IF pos \in DOMAIN items THEN pos ELSE NoItem

\* getItemAtClick: "If the object is a pixmap, don't return it"
getItemAtClick(obj) ==
    IF obj # NoItem /\ items[obj].kind = "GraphicsPixmap" THEN NoItem ELSE obj

\* list(set(...)): the order of the list is not read anywhere; the ascending
\* order stands for it
list_of_set(S) == SortedSeq(S)

\* the dispatch with shift and ctrl taken for each other
left_press_handler_swapped(modifiers) ==
    IF modifiers = {"ShiftModifier", "ControlModifier"} THEN "ctrl_shift_left_click"
    ELSE IF modifiers = {"ShiftModifier"} THEN "ctrl_click"
    ELSE IF modifiers = {"ControlModifier"} THEN "shift_left_click"
    ELSE "leftMouseButtonPress"

\* mousePressEvent: the handler a left-button press is passed to
left_press_handler(modifiers) ==
    IF modifiers = {"ShiftModifier", "ControlModifier"} THEN "ctrl_shift_left_click"
    ELSE IF modifiers = {"ShiftModifier"} THEN "shift_left_click"
    ELSE IF modifiers = {"ControlModifier"} THEN "ctrl_click"
    ELSE "leftMouseButtonPress"

\* self.mode = ... in each of the four handlers
mode_set_by(handler) ==
    CASE handler = "leftMouseButtonPress"  -> "replace"
      [] handler = "shift_left_click"      -> "toggle"
      [] handler = "ctrl_click"            -> "subtract"
      [] handler = "ctrl_shift_left_click" -> "add"

\* a toggle that takes nothing out
subtract_items_none(old, changed_items) == <<>>

\* toggle: the changed items that are not in the selection
add_items(old, changed_items) ==
    SelectSeq(changed_items, LAMBDA item : item \notin set_of(old))

\* toggle: the changed items that are in the selection
subtract_items(old, changed_items) ==
    SelectSeq(changed_items, LAMBDA item : item \in set_of(old))

\* evaluate_temp_items(changed_items): the new value of old_sel_items
evaluate_temp_items(old, changed_items, the_mode, the_drag) ==
    IF the_mode = "replace"
    THEN list_of_set(set_of(IF the_drag THEN old ELSE <<>>) \cup set_of(changed_items))
    ELSE IF the_mode = "toggle"
    THEN LET added == list_of_set(set_of(old) \cup set_of(add_items(old, changed_items)))
         IN  list_of_set(set_of(added) \ set_of(subtract_items(old, changed_items)))
    ELSE IF the_mode = "subtract"
    THEN list_of_set(set_of(old) \ set_of(changed_items))
    ELSE IF the_mode = "add"
    THEN list_of_set(set_of(old) \cup set_of(changed_items))
    ELSE old

\* select_items: setSelected(item in old_sel_items) for every item of the scene
select_items(scene, old) == {i \in DOMAIN scene : i \in set_of(old)}

\* the record of a gesture step kept in hist
RecordGesture(rec) ==
    /\ hist' = Kept(rec)
    /\ UNCHANGED nops

\* mousePressEvent for the left button, at view point pos with the modifiers held
mousePressEvent(pos, modifiers) ==
    LET handler == left_press_handler(modifiers)
        obj     == itemAt(pos)
        item    == getItemAtClick(obj)
        ctrl    == "ControlModifier" \in modifiers
    IN  /\ ~left_down
        /\ left_down' = TRUE
        /\ initial_mouse_pos' = pos
        /\ mode' = mode_set_by(handler)
        /\ drag' = (handler = "leftMouseButtonPress" /\ item # NoItem)
        /\ IF handler = "leftMouseButtonPress"
           THEN \* super().mousePressEvent(event): the item under the cursor takes
                \* the press and, unselected and without ctrl, becomes the only
                \* selected item; on the empty canvas a rubber band starts and,
                \* without ctrl, the selection is cleared
                IF obj # NoItem
                THEN /\ grabber' = obj
                     /\ rubberBanding' = FALSE
                     /\ selected' = IF ~ctrl /\ obj \notin selected THEN {obj} ELSE selected
                ELSE /\ grabber' = NoItem
                     /\ rubberBanding' = TRUE
                     /\ selected' = IF ctrl THEN selected ELSE {}
           ELSE \* "Getting the drag needs the parent's mousePressEvent, but breaks
                \* the selection": Qt does not see the press
                /\ grabber' = NoItem
                /\ rubberBanding' = FALSE
                /\ UNCHANGED selected
        /\ RecordGesture([op |-> "mousePressEvent", modifiers |-> modifiers,
                          pressed_on |-> item, sel_before |-> selected])
        /\ err' = "none"
        /\ UNCHANGED <<items, ref_item, old_sel_items, namespace, maya_sel, windowVars>>

\* mouseReleaseEvent for the left button at view point pos: leftMouseButtonRelease.
\* over is the item itemAt finds there, band the items of the rubber band
\* rectangle, ctrl whether ctrl is held, forwarded whether Qt passes the release
\* that ends a rubber band on to the scene
leftMouseButtonRelease(pos, over, band, ctrl, forwarded) ==
    LET moved     == pos # initial_mouse_pos
        over_item == getItemAtClick(over)
        sel_items == IF moved
                     THEN IF drag
                          THEN list_of_set(set_of(old_sel_items) \cup {over_item})
                          ELSE list_of_set(band)
                     ELSE <<over_item>>
        drag_now  == IF moved THEN drag ELSE FALSE
        new_old   == evaluate_temp_items(old_sel_items, sel_items, mode, drag_now)
        sel_now   == select_items(items, new_old)
        to_scene  == ~rubberBanding \/ forwarded
    IN  /\ left_down
        \* the scene stayed as it was unless an item was dragged along
        /\ over \in IF moved /\ drag THEN {itemAt(pos), itemAt(initial_mouse_pos)}
                    ELSE {itemAt(pos)}
        /\ (~moved \/ drag) => band = {}
        /\ (rubberBanding \/ grabber = NoItem \/ moved) => ~ctrl
        /\ ~rubberBanding => forwarded
        /\ left_down' = FALSE
        /\ drag' = drag_now
        /\ old_sel_items' = new_old
        /\ maya_sel' = select_items_maya(items, sel_now, namespace)
        \* super().mouseReleaseEvent(event): GraphicsScene.mouseReleaseEvent
        \* highlights, then the item that took the press, if the mouse did not
        \* move, toggles (ctrl) or becomes the only selected item
        /\ items' = IF to_scene THEN highlight_items(items, sel_now) ELSE items
        /\ selected' = IF to_scene /\ grabber # NoItem /\ ~moved
                       THEN IF ctrl
                            THEN IF grabber \in sel_now THEN sel_now \ {grabber}
                                 ELSE sel_now \cup {grabber}
                            ELSE {grabber}
                       ELSE sel_now
        /\ grabber' = NoItem
        /\ rubberBanding' = FALSE
        /\ RecordGesture([op |-> "leftMouseButtonRelease",
                          modifiers |-> hist[1].modifiers,
                          pressed_on |-> hist[1].pressed_on,
                          sel_before |-> hist[1].sel_before,
                          to_scene |-> to_scene,
                          namespace |-> namespace,
                          moved |-> moved,
                          S |-> set_of(old_sel_items),
                          C |-> set_of(sel_items),
                          mode |-> mode,
                          drag |-> drag_now])
        /\ err' = "none"
        /\ UNCHANGED <<ref_item, mode, initial_mouse_pos, namespace, windowVars>>

\* PickerWindow.set_namespace_view with curr_ns chosen in the Namespace menu
set_namespace_view(curr_ns) ==
    /\ ~left_down
    /\ namespace' = IF curr_ns = "" THEN "" ELSE curr_ns
    /\ namespace' # namespace
    /\ UNCHANGED <<items, selected, ref_item, err, hist, nops, old_sel_items, mode,
                   drag, initial_mouse_pos, maya_sel, left_down, grabber, rubberBanding,
                   windowVars>>

\* one tab in edit mode: two buttons and an image; the view as constructed
InitSel ==
    /\ items = (1 :> Templates[1]) @@ (2 :> Templates[2])
               @@ (3 :> setPos(GraphicsPixmap("front.png", TRUE), <<R(-40), R(-40)>>))
    /\ selected = {}
    /\ ref_item = NoItem
    /\ err = "none"
    /\ hist = <<>>
    /\ nops = 0
    /\ old_sel_items = <<>>
    /\ mode = "unset"
    /\ drag = FALSE
    /\ initial_mouse_pos = NoPos
    /\ namespace = NoNamespace
    /\ maya_sel = {}
    /\ left_down = FALSE
    /\ grabber = NoItem
    /\ rubberBanding = FALSE
    /\ pp_item = PreviewAsCreated
    /\ hist_len = 1
    /\ OneTabWindow

Modifiers == SUBSET {"ShiftModifier", "ControlModifier", "AltModifier"}

NextSel ==
    \/ \E pos \in Points, modifiers \in Modifiers : mousePressEvent(pos, modifiers)
    \/ \E pos \in Points, over \in {NoItem} \cup DOMAIN items, band \in SUBSET DOMAIN items,
          ctrl \in BOOLEAN, forwarded \in BOOLEAN :
            leftMouseButtonRelease(pos, over, band, ctrl, forwarded)
    \/ \E curr_ns \in {"", "rig"} : set_namespace_view(curr_ns)

SpecSel == InitSel /\ [][NextSel]_vars

-----------------------------------------------------------------------------
(* PickerWindow: the handlers that edit the buttons of the current tab.  A    *)
(* handler takes the list sel_items it is passed (the context menu passes the *)
(* button under the cursor); <<>> stands for no list passed, and then the     *)
(* handler reads selectedItems(), whose order Qt does not define.             *)

\* the orders a list of the items S can have
Perms(S) ==
    {p \in [1..Cardinality(S) -> S] : \A i, j \in 1..Cardinality(S) : p[i] = p[j] => i = j}

\* the record of an editing handler kept in hist, with the state it started from
EditRec(op, sel_items) ==
    [ op |-> op, sel_items |-> sel_items, sel |-> selected, ref |-> ref_item,
      items |-> items, old |-> set_of(old_sel_items), maya |-> maya_sel,
      pp |-> pp_item ]

\* identity of the list copy.deepcopy(self.pp_item.curr_coords) makes
deepcopy_pp_coords(scene) ==
    LET used == {scene[i].coords_id : i \in {j \in DOMAIN scene : scene[j].kind = "GraphicsButton"}}
                \cup {pp_item.coords_id}
    IN  Min((1..(Cardinality(used) + 1)) \ used)

\* the body of the loop of update_btn for one button
update_item(scene, id) ==
    LET shaped     == [scene[id] EXCEPT !.curr_shape = pp_item.curr_shape]
        old_center == get_center((id :> shaped), id)
        resized    == update_bounding_rect(shaped, [w |-> pp_item.set_rect.w,
                                                    h |-> pp_item.set_rect.h])
        moved      == setPos(resized, convert_from_center(old_center, resized))
        outlined   == update_polygon(moved, pp_item.curr_coords, deepcopy_pp_coords(scene))
    IN  [outlined EXCEPT !.text = pp_item.text,
                         !.brush_col = pp_item.brush_col,
                         !.highlight = FALSE]

\* the loop of update_btn over the list: an image takes the attribute curr_shape
\* and then has no set_rect for get_center to read (AttributeError)
RECURSIVE update_loop(_, _)
update_loop(scene, list) ==
    IF list = <<>> THEN [items |-> scene, err |-> "none"]
    ELSE LET id == Head(list)
         IN  IF scene[id].kind = "GraphicsPixmap"
             THEN [items |-> [scene EXCEPT ![id] =
                                 [f \in DOMAIN scene[id] \cup {"curr_shape"} |->
                                     IF f = "curr_shape" THEN pp_item.curr_shape
                                     ELSE scene[id][f]]],
                   err |-> "AttributeError"]
             ELSE update_loop([scene EXCEPT ![id] = update_item(scene, id)], Tail(list))

\* update_btn(sel_items); order is the order selectedItems() returns
update_btn(sel_items, order) ==
    LET list == IF sel_items # <<>> THEN sel_items ELSE order
        out  == update_loop(items, list)
    IN  /\ ~left_down
        /\ nops < MaxEdits
        /\ order \in Perms(selected)
        /\ set_of(sel_items) \subseteq DOMAIN items
        /\ Record(EditRec("update_btn", sel_items))
        /\ IF list = <<>>
           THEN /\ err' = "none"
                /\ UNCHANGED <<items, selected>>
           ELSE /\ items' = out.items
                /\ err' = out.err
                \* self.curr_scene.clearSelection(), not reached after an error
                /\ selected' = IF out.err = "none" THEN {} ELSE selected
        /\ UNCHANGED ref_item
        /\ UNCHANGED viewVars

\* the loop of bring_forward (step 1) / send_backward (step -1):
\* item.setZValue(item.zValue() + 0.01 * step) for every selected item
raised(scene, sel, step) ==
    [i \in DOMAIN scene |->
        IF i \in sel THEN [scene[i] EXCEPT !.z = RAdd(@, Rat(step, 100))] ELSE scene[i]]

bring_forward ==
    /\ ~left_down
    /\ nops < MaxEdits
    /\ Record(EditRec("bring_forward", <<>>))
    /\ items' = raised(items, selected, 1)
    /\ err' = "none"
    /\ UNCHANGED <<selected, ref_item>>
    /\ UNCHANGED viewVars

send_backward ==
    /\ ~left_down
    /\ nops < MaxEdits
    /\ Record(EditRec("send_backward", <<>>))
    /\ items' = raised(items, selected, -1)
    /\ err' = "none"
    /\ UNCHANGED <<selected, ref_item>>
    /\ UNCHANGED viewVars

\* the nodes of the host scene that are not transforms
NodeType(name) ==
    IF name \in {"curveShape1", "curveShape2"} THEN "nurbsCurve"
    ELSE IF name = "lambert1" THEN "lambert"
    ELSE "transform"

\* the order cmds.ls lists the selected nodes in
HostOrder ==
    <<"ctrl_a", "ctrl_b", "ctrl_d", "rig:ctrl_a", "rig:ctrl_b", "rig:ctrl_c",
      "curveShape1", "curveShape2", "lambert1">>

\* cmds.ls(selection=True, type=types); types = {} for no type given
ls(types) ==
    SelectSeq(HostOrder, LAMBDA name : name \in maya_sel
                                       /\ (types = {} \/ NodeType(name) \in types))

\* get_selected_items without the "Too many selected" return
get_selected_items_any_number(multi, type) == ls(type)

\* get_selected_items(multi, type): <<>> stands for None
get_selected_items(multi, type) ==
    LET sel_items == ls(type)
    IN  IF sel_items = <<>> THEN <<>>
        ELSE IF multi THEN sel_items
        ELSE IF Len(sel_items) > 1 THEN <<>>
        ELSE sel_items

\* the loop of update_btn_selection: update_sel_list(cmds.ls(selection=True))
\* keeps the names when the host selection is empty; an image has no
\* update_sel_list (AttributeError)
RECURSIVE update_selection_loop(_, _)
update_selection_loop(scene, list) ==
    IF list = <<>> THEN [items |-> scene, err |-> "none"]
    ELSE LET id == Head(list)
         IN  IF scene[id].kind = "GraphicsPixmap"
             THEN [items |-> scene, err |-> "AttributeError"]
             ELSE update_selection_loop(
                      IF ls({}) = <<>> THEN scene
                      ELSE [scene EXCEPT ![id].sel_objs = ls({}),
                                         ![id].names_id = FreshNamesId(scene)],
                      Tail(list))

\* update_btn_selection(sel_items); order is the order selectedItems() returns.
\* update_tree_view() fills a widget the model does not hold
update_btn_selection(sel_items, order) ==
    LET list == IF sel_items # <<>> THEN sel_items ELSE order
        out  == update_selection_loop(items, list)
    IN  /\ ~left_down
        /\ nops < MaxEdits
        /\ order \in Perms(selected)
        /\ set_of(sel_items) \subseteq DOMAIN items
        /\ Record(EditRec("update_btn_selection", sel_items))
        /\ items' = out.items
        /\ err' = out.err
        /\ UNCHANGED <<selected, ref_item>>
        /\ UNCHANGED viewVars

\* delete_btn(sel_items): removeItem for every item of the list.  ref_item and
\* GraphicsView.old_sel_items are not told
delete_btn(sel_items, order) ==
    LET list == IF sel_items # <<>> THEN sel_items ELSE order
        gone == set_of(list)
    IN  /\ ~left_down
        /\ nops < MaxEdits
        /\ order \in Perms(selected)
        /\ gone \subseteq DOMAIN items
        /\ Record(EditRec("delete_btn", sel_items))
        /\ items' = [i \in DOMAIN items \ gone |-> items[i]]
        /\ selected' = selected \ gone
        /\ removed' = [i \in (DOMAIN removed \cup gone) \cap {ref_item} |->
                          IF i \in gone THEN items[i] ELSE removed[i]]
        /\ err' = "none"
        /\ UNCHANGED <<ref_item, old_sel_items, mode, drag, initial_mouse_pos, namespace,
                       maya_sel, left_down, grabber, rubberBanding, pp_item, hist_len,
                       tabs, curr_tab, edit_mode, files, disk, widgetVars>>

\* create_btn(set_pos); NoPoint for no position passed.  The new button takes
\* the attributes of pp_item, its list curr_coords being the same list object
create_btn(set_pos) ==
    LET curr_sel == get_selected_items(TRUE, {"transform"})
        id       == FreshItemId(items)
        new_btn  == [GraphicsButton(TRUE, curr_sel, FreshNamesId(items),
                                    pp_item.set_rect, pp_item.brush_col, pp_item.text,
                                    pp_item.curr_shape, pp_item.curr_coords,
                                    pp_item.coords_id)
                        EXCEPT !.set_polygon = pp_item.set_polygon]
        center   == IF set_pos = NoPoint THEN QPointF(R(0), R(0)) ELSE set_pos
    IN  /\ ~left_down
        /\ nops < MaxEdits
        /\ Cardinality(DOMAIN items) < MaxShapes
        /\ Record(EditRec("create_btn", <<>>))
        /\ IF curr_sel = <<>>
           THEN UNCHANGED items
           ELSE items' = items @@ (id :> setPos(new_btn, convert_from_center(center, new_btn)))
        /\ err' = "none"
        /\ UNCHANGED <<selected, ref_item>>
        /\ UNCHANGED viewVars

\* update_shape(new_text): the shape combo box of the preview
update_shape(new_text) ==
    /\ ~left_down
    /\ nops < MaxEdits
    /\ new_text # pp_item.curr_shape
    /\ Record(EditRec("update_shape", <<>>))
    /\ pp_item' = update_polygon([pp_item EXCEPT !.curr_shape = new_text], <<>>, 0)
    /\ err' = "none"
    /\ UNCHANGED <<items, selected, ref_item, old_sel_items, mode, drag,
                   initial_mouse_pos, namespace, maya_sel, left_down, grabber,
                   rubberBanding, hist_len, tabs, curr_tab, edit_mode, files, disk,
                   removed, widgetVars>>

\* the smallest / largest of the rationals S
RMin(S) == CHOOSE x \in S : \A y \in S : RLeq(x, y)

RMax(S) == CHOOSE x \in S : \A y \in S : RLeq(y, x)

\* the points of get_shape_from_scene brought to the 0-25 scale
normalized(creation_points) ==
    LET xs == {creation_points[k][1] : k \in 1..Len(creation_points)}
        ys == {creation_points[k][2] : k \in 1..Len(creation_points)}
        x_length == RSub(RMax(xs), RMin(xs))
        y_length == RSub(RMax(ys), RMin(ys))
        square_length == IF RLeq(x_length, y_length) THEN y_length ELSE x_length
        scale_factor  == RDiv(R(MINIMUM_SIZE), square_length)
    IN  [k \in 1..Len(creation_points) |->
            << RMul(RSub(creation_points[k][1], RMin(xs)), scale_factor),
               RMul(RSub(creation_points[k][2], RMin(ys)), scale_factor) >>]

\* the extent of the sampled points is zero on both axes
no_extent(creation_points) ==
    \A j, k \in 1..Len(creation_points) : creation_points[j] = creation_points[k]

\* get_shape_from_scene; creation_points are the points cmds.pointOnCurve gives
\* along the selected curve, to 3 decimals.  The Get Shape button is enabled
\* while the preview shape is Custom
get_shape_from_scene(creation_points) ==
    LET curr_sel == get_selected_items(FALSE, {"nurbsCurve"})
    IN  /\ ~left_down
        /\ nops < MaxEdits
        /\ pp_item.curr_shape = SHAPES[3]
        /\ Record([EditRec("get_shape_from_scene", <<>>) EXCEPT !.sel_items = creation_points])
        /\ IF curr_sel = <<>>
           THEN /\ err' = "none"
                /\ UNCHANGED pp_item
           ELSE IF no_extent(creation_points)
           THEN \* MINIMUM_SIZE / square_length with square_length = 0.0
                /\ err' = "ZeroDivisionError"
                /\ UNCHANGED pp_item
           ELSE /\ err' = "none"
                /\ pp_item' = update_polygon(pp_item, normalized(creation_points),
                                             deepcopy_pp_coords(items))
        /\ UNCHANGED <<items, selected, ref_item, old_sel_items, mode, drag,
                       initial_mouse_pos, namespace, maya_sel, left_down, grabber,
                       rubberBanding, hist_len, tabs, curr_tab, edit_mode, files, disk,
                       removed, widgetVars>>

-----------------------------------------------------------------------------
(* The editing handlers on one tab in edit mode: two buttons and an image,    *)
(* some of them selected by a rubber band, and nodes selected in the host.    *)

\* the preview after "Custom" was chosen and an outline was taken from a curve
PreviewCustom ==
    update_polygon([GraphicsButton(FALSE, <<>>, 0, [w |-> 40, h |-> 30], <<0, 200, 10>>,
                                   "new", SHAPES[3], CustomCoords, 2)
                       EXCEPT !.curr_shape = SHAPES[3]], <<>>, 0)

\* what the user has selected in the host
HostSelections ==
    { {}, {"ctrl_a"}, {"ctrl_a", "ctrl_d"}, {"lambert1"}, {"curveShape1"},
      {"curveShape1", "curveShape2"}, {"ctrl_b", "curveShape1"} }

\* the points sampled along a curve
Curves ==
    { << <<R(0), R(0)>>, <<R(2), R(0)>>, <<R(2), R(1)>> >>,
      << <<R(-1), Rat(-1, 2)>>, <<R(1), R(3)>>, <<Rat(1, 8), R(1)>> >>,
      << <<R(1), R(1)>>, <<R(1), R(1)>> >> }

InitEdit ==
    /\ \E sel \in SUBSET {1, 2, 3} :
          /\ items = highlight_items(
                        (1 :> Templates[1]) @@ (2 :> Templates[2])
                        @@ (3 :> setPos(GraphicsPixmap("front.png", TRUE), <<R(-40), R(-40)>>)),
                        sel)
          /\ selected = sel
          /\ old_sel_items = SortedSeq(sel)
    /\ ref_item \in {NoItem, 2}
    /\ maya_sel \in HostSelections
    /\ pp_item \in {PreviewAsCreated, PreviewCustom}
    /\ err = "none"
    /\ hist = <<>>
    /\ nops = 0
    /\ mode = "replace"
    /\ drag = FALSE
    /\ initial_mouse_pos = 0
    /\ namespace = NoNamespace
    /\ left_down = FALSE
    /\ grabber = NoItem
    /\ rubberBanding = FALSE
    /\ hist_len = 2
    /\ OneTabWindow

NextEdit ==
    \/ \E mirror_x \in BOOLEAN, on \in {MIRROR_ONS[1], MIRROR_ONS[2]} :
            mirror_sel_btns(mirror_x, ~mirror_x, on, MIRROR_TYPES[1])
    \/ bring_forward
    \/ send_backward
    \/ \E order \in Perms(selected) : update_btn(<<>>, order)
    \/ \E order \in Perms(selected) : update_btn_selection(<<>>, order)
    \/ \E order \in Perms(selected) : delete_btn(<<>>, order)
    \/ set_ref_item(NoItem)

SpecEdit == InitEdit /\ [][NextEdit]_vars

\* creating buttons from the host selection, and the preview's outline
NextCreate ==
    \/ \E set_pos \in {NoPoint, <<R(10), R(-5)>>} : create_btn(set_pos)
    \/ \E new_text \in {SHAPES[1], SHAPES[2], SHAPES[3]} : update_shape(new_text)
    \/ \E creation_points \in Curves : get_shape_from_scene(creation_points)

SpecCreate == InitEdit /\ [][NextCreate]_vars

\* deleting the selected items, clicking on the canvas, and the operations
\* that take the reference shape as pivot
NextRef ==
    \/ \E order \in Perms(selected) : delete_btn(<<>>, order)
    \/ \E pos \in Points : mousePressEvent(pos, {})
    \/ \E forwarded \in BOOLEAN :
          leftMouseButtonRelease(initial_mouse_pos, itemAt(initial_mouse_pos), {},
                                 FALSE, forwarded)
    \/ \E mirror_x \in BOOLEAN :
          ~left_down /\ mirror_sel_btns(mirror_x, ~mirror_x, MIRROR_ONS[2], MIRROR_TYPES[1])
    \/ ~left_down /\ align_by_x
    \/ ~left_down /\ align_by_y

SpecRef == InitEdit /\ [][NextRef]_vars

-----------------------------------------------------------------------------
(* PickerWindow.save_xml_file / load_xml_file.  The document is modelled as   *)
(* its element tree: a sequence of tab elements, each with the sequences of   *)
(* its SHAPES and IMAGES elements.  A formatted number is the decimal string  *)
(* it is written as: the integer q of "%.kf" stands for the string q / 10^k.  *)

Pow10(k) == IF k = 2 THEN 100 ELSE IF k = 3 THEN 1000 ELSE 1

\* "%.2f" % r and format(r, ".3f"): r rounded to k decimals, a tie going to the
\* even digit
format_f(r, k) ==
    LET n    == r[1] * Pow10(k)
        q    == n \div r[2]
        rest == n % r[2]
    IN  [q |-> IF 2 * rest > r[2] THEN q + 1
               ELSE IF 2 * rest < r[2] THEN q
               ELSE IF q % 2 = 0 THEN q ELSE q + 1,
         k |-> k]

\* float(string) of a formatted number
float(str) == Rat(str.q, Pow10(str.k))

Digits == <<"0", "1", "2", "3", "4", "5", "6", "7", "8", "9">>

\* the element names counted from 0
element_name_from_zero(prefix, counter) ==
    prefix \o "_" \o Digits[((counter - 1) \div 10) + 1] \o Digits[((counter - 1) % 10) + 1]

\* "%s_%02d" % (prefix, counter), for counters below 100
element_name(prefix, counter) ==
    prefix \o "_" \o Digits[(counter \div 10) + 1] \o Digits[(counter % 10) + 1]

\* ", ".join(str(obj) for obj in sel_objs): the string, kept as the parts that
\* split(", ") finds in it ("" splits into one empty part)
join_names(sel_objs) == IF sel_objs = <<>> THEN <<"">> ELSE sel_objs

\* list(filter(None, string.split(", ")))
split_names(str) == SelectSeq(str, LAMBDA part : part # "")

\* the tab names that are not XML names: minidom writes them as they are and
\* the parser of load_xml_file rejects the file
NotXmlNames == {"Face Picker"}

\* QGraphicsScene.items(): descending stacking order, the higher z first and of
\* two items of equal z the one added later
RECURSIVE items_list(_, _)
items_list(scene, S) ==
    IF S = {} THEN <<>>
    ELSE LET top == CHOOSE i \in S : \A j \in S :
                        \/ (RLeq(scene[j].z, scene[i].z) /\ scene[j].z # scene[i].z)
                        \/ (scene[j].z = scene[i].z /\ j <= i)
         IN  <<top>> \o items_list(scene, S \ {top})

\* the <pos> element of a shape or an image
pos_element(item) ==
    [x |-> format_f(item.pos[1], 2), y |-> format_f(item.pos[2], 2),
     z |-> format_f(item.z, 2)]

\* the element written for an image
image_element(item, img_counter) ==
    [tag      |-> element_name("image", img_counter),
     pos      |-> pos_element(item),
     filepath |-> item.file_path]

\* the element written for a button
shape_element(item, shape_counter) ==
    [tag         |-> element_name("shape", shape_counter),
     brush_col   |-> [R |-> item.brush_col[1], G |-> item.brush_col[2],
                      B |-> item.brush_col[3]],
     text        |-> item.text,
     pos         |-> pos_element(item),
     set_rect    |-> [width |-> item.set_rect.w, height |-> item.set_rect.h],
     sel_objs    |-> join_names(item.sel_objs),
     curr_shape  |-> item.curr_shape,
     curr_coords |-> [n \in 1..Len(item.curr_coords) |->
                         [tag |-> n,
                          x |-> format_f(item.curr_coords[n][1], 3),
                          y |-> format_f(item.curr_coords[n][2], 3)]]]

\* the loop over gr_items of one tab with its two counters
RECURSIVE export_items(_, _, _, _, _)
export_items(scene, gr_items, shape_counter, img_counter, tab_element) ==
    IF gr_items = <<>> THEN tab_element
    ELSE LET gr_item == scene[Head(gr_items)]
         IN  IF gr_item.kind = "GraphicsPixmap"
             THEN export_items(scene, Tail(gr_items), shape_counter, img_counter + 1,
                      [tab_element EXCEPT !.IMAGES =
                          Append(@, image_element(gr_item, img_counter))])
             ELSE export_items(scene, Tail(gr_items), shape_counter + 1, img_counter,
                      [tab_element EXCEPT !.SHAPES =
                          Append(@, shape_element(gr_item, shape_counter))])

\* the scene / view of the current tab as a tab that is not shown keeps it
current_state ==
    [items |-> items, selected |-> selected, ref_item |-> ref_item,
     old_sel_items |-> old_sel_items, mode |-> mode, drag |-> drag,
     initial_mouse_pos |-> initial_mouse_pos, zoom |-> zoom, view_scale |-> view_scale]

\* self.tabs_dict[tab_index].items as a scene
scene_of_tab(tab_index) ==
    IF tab_index = curr_tab THEN items ELSE tabs[tab_index].state[1].items

\* the element of one tab
tab_element_of(tab_index) ==
    LET scene == scene_of_tab(tab_index)
    IN  export_items(scene, items_list(scene, DOMAIN scene), 1, 1,
                     [tag |-> tabs[tab_index].name, SHAPES |-> <<>>, IMAGES |-> <<>>])

\* the record of save_xml_file / load_xml_file kept in hist
FileRec(op, filename, tab_list) ==
    [ op |-> op, filename |-> filename, tab_list |-> tab_list,
      names |-> [k \in 1..Len(tabs) |-> tabs[k].name],
      scenes |-> [k \in 1..Len(tabs) |-> scene_of_tab(k)],
      file |-> IF filename = "" THEN <<>> ELSE files[filename],
      disk |-> disk ]

\* save_xml_file(tabs) with the file name the dialog returned ("" if cancelled)
save_xml_file(filename, tab_list) ==
    /\ ~left_down
    /\ filename \in {""} \cup XmlPaths
    /\ nops < MaxFileOps
    /\ Record(FileRec("save_xml_file", filename, tab_list))
    /\ err' = "none"
    /\ files' = IF filename = "" THEN files
                ELSE [files EXCEPT ![filename] =
                         << [k \in 1..Len(tab_list) |-> tab_element_of(tab_list[k])] >>]
    /\ UNCHANGED <<items, selected, ref_item, old_sel_items, mode, drag,
                   initial_mouse_pos, namespace, maya_sel, left_down, grabber,
                   rubberBanding, pp_item, hist_len, tabs, curr_tab, edit_mode, disk,
                   removed, widgetVars>>

\* the button load_xml_file makes of a shape element, the n-th of its tab
loaded_button(shape, n) ==
    LET set_rect == [w |-> shape.set_rect.width, h |-> shape.set_rect.height]
        coords   == [k \in 1..Len(shape.curr_coords) |->
                        <<float(shape.curr_coords[k].x), float(shape.curr_coords[k].y)>>]
        made     == GraphicsButton(TRUE, split_names(shape.sel_objs), n,
                                   set_rect,
                                   <<shape.brush_col.R, shape.brush_col.G, shape.brush_col.B>>,
                                   shape.text, shape.curr_shape, coords,
                                   pp_item.coords_id + n)
        placed   == setPos(update_polygon(made, <<>>, 0),
                           QPointF(float(shape.pos.x), float(shape.pos.y)))
    IN  [placed EXCEPT !.z = float(shape.pos.z),
                       !.flags = IF edit_mode THEN {"ItemIsSelectable", "ItemIsMovable"}
                                 ELSE {"ItemIsSelectable"}]

\* os.path.join(WORKING_DIR, CONFIG_FOLDER, LOST_IMAGE)
LostImagePath == "config/lost_image.png"

\* the pixmap of an image element whose path is not looked up on the disk
loaded_pixmap_unchecked(image) ==
    [setPos(GraphicsPixmap(image.filepath, TRUE),
            QPointF(float(image.pos.x), float(image.pos.y)))
        EXCEPT !.z = float(image.pos.z)]

\* the pixmap load_xml_file makes of an image element
loaded_pixmap(image) ==
    LET good_img == image.filepath \in disk
        made     == GraphicsPixmap(IF good_img THEN image.filepath ELSE LostImagePath,
                                   good_img)
    IN  [setPos(made, QPointF(float(image.pos.x), float(image.pos.y)))
            EXCEPT !.z = float(image.pos.z)]

\* the scene of the tab made of one tab element: the shapes, then the images
loaded_scene(tab) ==
    [i \in 1..(Len(tab.SHAPES) + Len(tab.IMAGES)) |->
        IF i <= Len(tab.SHAPES) THEN loaded_button(tab.SHAPES[i], i)
        ELSE loaded_pixmap(tab.IMAGES[i - Len(tab.SHAPES)])]

\* a tab right after create_tab and the additions of load_xml_file
loaded_state(tab) ==
    [items |-> loaded_scene(tab), selected |-> {}, ref_item |-> NoItem,
     old_sel_items |-> <<>>, mode |-> "unset", drag |-> FALSE,
     initial_mouse_pos |-> NoPos, zoom |-> NewZoom.zoom, view_scale |-> NewZoom.view_scale]

\* et.parse(filename): the error it raises
parse_error(filename) ==
    IF files[filename] = <<>> THEN "FileNotFoundError"
    ELSE IF \E k \in 1..Len(files[filename][1]) : files[filename][1][k].tag \in NotXmlNames
         THEN "ParseError"
         ELSE "none"

\* load_xml_file with the file name the dialog returned ("" if cancelled)
\* the identity of the next GraphicsScene constructed: one never given before
\* to a scene that something still refers to
FreshScene ==
    LET used == {tab_scenes[k] : k \in 1..Len(tab_scenes)}
                \cup {tabs_dict[k] : k \in DOMAIN tabs_dict} \cup {curr_scene, 0}
    IN  (CHOOSE x \in used : \A y \in used : y <= x) + 1

load_xml_file(filename) ==
    LET root     == files[filename][1]
        old_tabs == [k \in 1..Len(tabs) |->
                        IF k = curr_tab THEN Tab(tabs[k].name, <<current_state>>)
                        ELSE tabs[k]]
        new_tabs == [k \in 1..Len(root) |->
                        Tab(root[k].tag,
                            IF k = Len(root) THEN <<>> ELSE <<loaded_state(root[k])>>)]
        last     == loaded_state(root[Len(root)])
    IN  /\ ~left_down
        /\ filename \in {""} \cup XmlPaths
        /\ nops < MaxFileOps
        /\ Record(FileRec("load_xml_file", filename, <<>>))
        /\ IF filename = ""
           THEN /\ err' = "none"
                /\ UNCHANGED <<items, selected, ref_item, old_sel_items, mode, drag,
                               initial_mouse_pos, tabs, curr_tab, tab_scenes,
                               tabs_dict, curr_scene, zoom, view_scale>>
           ELSE IF parse_error(filename) # "none"
           THEN \* "File does not exist" is printed and et.parse is called all the same
                /\ err' = parse_error(filename)
                /\ UNCHANGED <<items, selected, ref_item, old_sel_items, mode, drag,
                               initial_mouse_pos, tabs, curr_tab, tab_scenes,
                               tabs_dict, curr_scene, zoom, view_scale>>
           ELSE IF root = <<>>
           THEN /\ err' = "none"
                /\ UNCHANGED <<items, selected, ref_item, old_sel_items, mode, drag,
                               initial_mouse_pos, tabs, curr_tab, tab_scenes,
                               tabs_dict, curr_scene, zoom, view_scale>>
           ELSE /\ err' = "none"
                /\ tabs' = old_tabs \o new_tabs
                /\ curr_tab' = Len(tabs) + Len(root)
                /\ items' = last.items
                /\ selected' = last.selected
                /\ ref_item' = last.ref_item
                /\ old_sel_items' = last.old_sel_items
                /\ mode' = last.mode
                /\ drag' = last.drag
                /\ initial_mouse_pos' = last.initial_mouse_pos
                /\ zoom' = last.zoom
                /\ view_scale' = last.view_scale
                \* create_tab for each tab of the file: a new scene at the end
                /\ tab_scenes' = tab_scenes \o [k \in 1..Len(root) |-> FreshScene + k - 1]
                /\ tabs_dict' = [k \in 0..(Len(tabs) + Len(root) - 1) |->
                                    IF k < Len(tabs) /\ k \in DOMAIN tabs_dict
                                    THEN tabs_dict[k] ELSE FreshScene + k - Len(tabs)]
                /\ curr_scene' = FreshScene + Len(root) - 1
        /\ UNCHANGED <<namespace, maya_sel, left_down, grabber, rubberBanding,
                       pp_item, hist_len, edit_mode, files, disk, removed, viewport>>

\* an image file is removed from the disk outside the program
remove_image_file(path) ==
    /\ path \in disk
    /\ disk' = disk \ {path}
    /\ UNCHANGED <<items, selected, ref_item, err, hist, nops, old_sel_items, mode,
                   drag, initial_mouse_pos, namespace, maya_sel, left_down, grabber,
                   rubberBanding, pp_item, hist_len, tabs, curr_tab, edit_mode, files,
                   removed, widgetVars>>

\* items a saved tab can hold: a button dragged to a point off the grid of
\* hundredths, with an outline off the grid of thousandths and raised twice by
\* bring_forward; and an image behind the buttons
DraggedButton ==
    [Placed(<<Rat(38, 3), Rat(-1, 8)>>, 40, 30, SHAPES[3],
            << <<R(0), R(0)>>, <<R(MINIMUM_SIZE), Rat(50, 3)>>, <<Rat(1, 16), R(20)>> >>, 3,
            <<"rig:ctrl_a", "ctrl_b">>, 5, <<0, 200, 10>>, "L arm")
        EXCEPT !.z = Rat(2, 100)]

ImageAt(path, pos, z) == [setPos(GraphicsPixmap(path, TRUE), pos) EXCEPT !.z = z]

XmlScenes ==
    { (1 :> Templates[1]),
      (1 :> Templates[3]) @@ (2 :> DraggedButton),
      (1 :> DraggedButton) @@ (2 :> ImageAt("front.png", <<Rat(-401, 10), R(-40)>>, R(-1))),
      (1 :> ImageAt("front.png", <<R(0), R(0)>>, R(-1))) @@ (2 :> Templates[2])
         @@ (3 :> ImageAt("side.png", <<Rat(5, 8), R(3)>>, R(1))) @@ (4 :> Templates[1]),
      <<>> }

TabNames == {"Body", "Face Picker"}

InitXml ==
    /\ edit_mode \in BOOLEAN
    /\ \E scene \in XmlScenes, name \in TabNames, two \in BOOLEAN :
          /\ items = set_edit_mode(scene, edit_mode)
          /\ tabs = IF two
                    THEN <<Tab(name, <<>>),
                           Tab("Face", <<[items |-> set_edit_mode((1 :> Templates[4]), edit_mode),
                                          selected |-> {},
                                          ref_item |-> NoItem, old_sel_items |-> <<>>,
                                          mode |-> "unset", drag |-> FALSE,
                                          initial_mouse_pos |-> NoPos,
                                          zoom |-> NewZoom.zoom,
                                          view_scale |-> NewZoom.view_scale]>>)>>
                    ELSE <<Tab(name, <<>>)>>
    /\ WidgetsAsBuilt(Len(tabs))
    /\ disk \in SUBSET {"front.png", "side.png"}
    /\ curr_tab = 1
    /\ files = [path \in XmlPaths |-> <<>>]
    /\ removed = <<>>
    /\ selected = {}
    /\ ref_item = NoItem
    /\ err = "none"
    /\ hist = <<>>
    /\ nops = 0
    /\ old_sel_items = <<>>
    /\ mode = "unset"
    /\ drag = FALSE
    /\ initial_mouse_pos = NoPos
    /\ namespace = NoNamespace
    /\ maya_sel = {}
    /\ left_down = FALSE
    /\ grabber = NoItem
    /\ rubberBanding = FALSE
    /\ pp_item = PreviewAsCreated
    /\ hist_len = 2

\* the lists of tabs the save dialog can hand over
TabLists == {SortedSeq(S) : S \in SUBSET (1..Len(tabs))}

NextXml ==
    \/ \E filename \in {"", "picker.xml"}, tab_list \in TabLists :
            save_xml_file(filename, tab_list)
    \/ \E filename \in {""} \cup XmlPaths : load_xml_file(filename)
    \/ \E path \in disk : remove_image_file(path)

SpecXml == InitXml /\ [][NextXml]_vars

-----------------------------------------------------------------------------
(* PickerWindow.create_tab / remove_tab / tab_changed.  The tab widget holds   *)
(* the views in order; tab k of the model is the tab of index k - 1.  Qt emits *)
(* currentChanged(index), which runs tab_changed, whenever the current tab     *)
(* changes: when the first tab is added, in setCurrentIndex, in removeTab and  *)
(* when the user clicks a tab.                                                 *)

MaxTabOps == 4

\* the state of every tab, the shown one included
all_states ==
    [k \in 1..Len(tabs) |-> IF k = curr_tab THEN current_state ELSE tabs[k].state[1]]

\* a tab as create_tab makes it: an empty GraphicsScene in a new GraphicsView
new_state ==
    [items |-> <<>>, selected |-> {}, ref_item |-> NoItem, old_sel_items |-> <<>>,
     mode |-> "unset", drag |-> FALSE, initial_mouse_pos |-> NoPos,
     zoom |-> NewZoom.zoom, view_scale |-> NewZoom.view_scale]

\* the bookkeeping the slot works on
book(dict, scene, states, error) ==
    [tabs_dict |-> dict, curr_scene |-> scene, states |-> states, err |-> error]

\* self.curr_scene.clearSelection() and highlight_button(False) for its items:
\* scenes[k] is the scene of states[k]
clear_scene(states, scenes, scene) ==
    [k \in 1..Len(states) |->
        IF scenes[k] = scene
        THEN [states[k] EXCEPT !.selected = {}, !.items = highlight_items(@, {})]
        ELSE states[k]]

\* tab_changed(index) run as the slot of currentChanged, the tab widget
\* holding tab_count tabs with the scenes `scenes`.  An exception raised in the
\* slot is reported by the binding and ends the slot only
tab_changed_slot(b, index, tab_count, scenes) ==
    IF tab_count < 1 THEN b
    ELSE IF b.curr_scene = NoItem
    THEN \* None.clearSelection()
         [b EXCEPT !.err = "AttributeError"]
    ELSE [b EXCEPT !.states = clear_scene(b.states, scenes, b.curr_scene),
                   !.curr_scene = IF index \in DOMAIN b.tabs_dict
                                  THEN b.tabs_dict[index] ELSE NoItem]

\* the tab widget after the step: the names and states of the tabs, the tab
\* shown (0 for none) and the program's variables of the scene shown
Show(names, states, shown) ==
    LET st == IF shown = 0 THEN new_state ELSE states[shown]
    IN  /\ tabs' = [k \in 1..Len(names) |->
                       Tab(names[k], IF k = shown THEN <<>> ELSE <<states[k]>>)]
        /\ curr_tab' = shown
        /\ items' = st.items
        /\ selected' = st.selected
        /\ ref_item' = st.ref_item
        /\ old_sel_items' = st.old_sel_items
        /\ mode' = st.mode
        /\ drag' = st.drag
        /\ initial_mouse_pos' = st.initial_mouse_pos
        /\ zoom' = st.zoom
        /\ view_scale' = st.view_scale

tab_names == [k \in 1..Len(tabs) |-> tabs[k].name]

\* the record of a tab operation kept in hist
TabRec(op, arg) ==
    [ op |-> op, arg |-> arg, tabs |-> tab_names, tab_scenes |-> tab_scenes,
      curr_tab |-> curr_tab, tabs_dict |-> tabs_dict, curr_scene |-> curr_scene ]

\* what the tab operations leave alone
tabFrame ==
    <<namespace, maya_sel, left_down, grabber, rubberBanding, pp_item, hist_len,
      edit_mode, files, disk, removed, viewport>>

\* create_tab(tab_name); "" stands for no name passed and the dialog left empty
create_tab(tab_name) ==
    LET tab_scene  == FreshScene
        tab_index  == Len(tabs)
        scenes     == Append(tab_scenes, tab_scene)
        states     == Append(all_states, new_state)
        before     == book(tabs_dict, curr_scene, states, "none")
        \* addTab: the first tab of the widget becomes the current one
        added      == IF Len(tabs) = 0
                      THEN tab_changed_slot(before, 0, 1, scenes)
                      ELSE before
        assigned   == [added EXCEPT !.tabs_dict = (tab_index :> tab_scene) @@ @,
                                    !.curr_scene = tab_scene]
        \* setCurrentIndex(tab_index)
        shown      == IF tab_index # curr_tab - 1 /\ Len(tabs) # 0
                      THEN tab_changed_slot(assigned, tab_index, tab_index + 1, scenes)
                      ELSE assigned
    IN  /\ ~left_down
        /\ nops < MaxTabOps
        /\ Record(TabRec("create_tab", tab_name))
        /\ IF tab_name = ""
           THEN /\ err' = "none"
                /\ UNCHANGED <<items, selected, ref_item, old_sel_items, mode, drag,
                               initial_mouse_pos, tabs, curr_tab, tab_scenes,
                               tabs_dict, curr_scene, zoom, view_scale>>
           ELSE /\ Show(Append(tab_names, tab_name), shown.states, tab_index + 1)
                /\ tab_scenes' = scenes
                /\ tabs_dict' = shown.tabs_dict
                /\ curr_scene' = shown.curr_scene
                /\ err' = shown.err
        /\ UNCHANGED tabFrame

\* a sequence without its k-th entry
without(seq, k) == SubSeq(seq, 1, k - 1) \o SubSeq(seq, k + 1, Len(seq))

\* remove_tab(): currentIndex() is -1, never None, when there is no tab
remove_tab ==
    LET index      == curr_tab - 1
        scenes     == without(tab_scenes, curr_tab)
        states     == without(all_states, curr_tab)
        \* removeTab: the tab to the right takes the place, or the last one
        new_index  == IF Len(scenes) = 0 THEN -1
                      ELSE IF index < Len(scenes) THEN index ELSE index - 1
        before     == book(tabs_dict, curr_scene, states, "none")
        removed_cur == tab_changed_slot(before, new_index, Len(scenes), scenes)
        \* tabs_dict.clear() and the loop over the tabs left
        rebuilt    == [k \in 0..(Len(scenes) - 1) |-> scenes[k + 1]]
    IN  /\ ~left_down
        /\ nops < MaxTabOps
        /\ Record(TabRec("remove_tab", ""))
        /\ IF curr_tab = 0
           THEN /\ err' = "none"
                /\ tabs_dict' = <<>>
                /\ curr_scene' = NoItem
                /\ UNCHANGED <<items, selected, ref_item, old_sel_items, mode, drag,
                               initial_mouse_pos, tabs, curr_tab, tab_scenes, zoom,
                               view_scale>>
           ELSE /\ Show(without(tab_names, curr_tab), removed_cur.states, new_index + 1)
                /\ tab_scenes' = scenes
                /\ tabs_dict' = rebuilt
                /\ curr_scene' = IF new_index = -1 THEN NoItem ELSE rebuilt[new_index]
                /\ err' = removed_cur.err
        /\ UNCHANGED tabFrame

\* the user clicks the tab of index `index`: currentChanged runs tab_changed
tab_changed(index) ==
    LET after == tab_changed_slot(book(tabs_dict, curr_scene, all_states, "none"),
                                  index, Len(tabs), tab_scenes)
    IN  /\ ~left_down
        /\ nops < MaxTabOps
        /\ index \in 0..(Len(tabs) - 1)
        /\ index # curr_tab - 1
        /\ Record(TabRec("tab_changed", ""))
        /\ Show(tab_names, after.states, index + 1)
        /\ curr_scene' = after.curr_scene
        /\ err' = after.err
        /\ UNCHANGED <<tab_scenes, tabs_dict>>
        /\ UNCHANGED tabFrame

InitTabs ==
    /\ selected \in {{}, {1}}
    /\ items = highlight_items((1 :> Templates[1]) @@ (2 :> Templates[2]), selected)
    /\ old_sel_items = SortedSeq(selected)
    /\ ref_item = NoItem
    /\ err = "none"
    /\ hist = <<>>
    /\ nops = 0
    /\ mode = "replace"
    /\ drag = FALSE
    /\ initial_mouse_pos = 0
    /\ namespace = NoNamespace
    /\ maya_sel = {}
    /\ left_down = FALSE
    /\ grabber = NoItem
    /\ rubberBanding = FALSE
    /\ pp_item = PreviewAsCreated
    /\ hist_len = 1
    /\ OneTabWindow

NextTabs ==
    \/ \E tab_name \in {"", "Face", "Body"} : create_tab(tab_name)
    \/ remove_tab
    \/ \E index \in 0..(Len(tabs) - 1) : tab_changed(index)

SpecTabs == InitTabs /\ [][NextTabs]_vars

-----------------------------------------------------------------------------
(* GraphicsView.wheelEvent.  The scale of the view's transform is kept as     *)
(* <<a, b>> for the number 5^a * 2^b: 1.25 is <<1, -2>>, 1 / 1.25 is <<-1, 2>>. *)
(* The rounding of the floats is not modelled.                                *)

zoomInFactor == <<1, -2>>

zoomStep == 1

zoomRange == <<0, 500>>

zoomClamp == TRUE

\* 1 / x
inverse(x) == <<-x[1], -x[2]>>

\* QGraphicsView.scale(factor, factor) on a view of scale s
scale(s, factor) == <<s[1] + factor[1], s[2] + factor[2]>>

\* a wheel that scales the view although the zoom level was clamped
wheelEvent_scaling_when_clamped(angle) ==
    LET zoomFactor == IF angle > 0 THEN zoomInFactor ELSE inverse(zoomInFactor)
        stepped    == IF angle > 0 THEN zoom + zoomStep ELSE zoom - zoomStep
        low        == IF stepped < zoomRange[1] THEN zoomRange[1] ELSE stepped
        high       == IF low > zoomRange[2] THEN zoomRange[2] ELSE low
    IN  /\ curr_tab # 0
        /\ RecordGesture([op |-> "wheelEvent", angle |-> angle, zoom |-> zoom,
                          view_scale |-> view_scale])
        /\ zoom' = high
        /\ view_scale' = scale(view_scale, zoomFactor)
        /\ err' = "none"
        /\ UNCHANGED <<items, selected, ref_item, old_sel_items, mode, drag,
                       initial_mouse_pos, namespace, maya_sel, left_down, grabber,
                       rubberBanding, pp_item, hist_len, tabs, curr_tab, edit_mode,
                       files, disk, removed, tab_scenes, tabs_dict, curr_scene,
                       viewport>>

\* wheelEvent(event) with event.angleDelta().y() = angle
wheelEvent(angle) ==
    LET zoomOutFactor == inverse(zoomInFactor)
        zoomFactor == IF angle > 0 THEN zoomInFactor ELSE zoomOutFactor
        stepped    == IF angle > 0 THEN zoom + zoomStep ELSE zoom - zoomStep
        low        == IF stepped < zoomRange[1] THEN zoomRange[1] ELSE stepped
        high       == IF low > zoomRange[2] THEN zoomRange[2] ELSE low
        clamped    == stepped < zoomRange[1] \/ low > zoomRange[2]
    IN  /\ curr_tab # 0
        /\ RecordGesture([op |-> "wheelEvent", angle |-> angle, zoom |-> zoom,
                          view_scale |-> view_scale])
        /\ zoom' = high
        /\ view_scale' = IF ~clamped \/ zoomClamp = FALSE
                         THEN scale(view_scale, zoomFactor) ELSE view_scale
        /\ err' = "none"
        /\ UNCHANGED <<items, selected, ref_item, old_sel_items, mode, drag,
                       initial_mouse_pos, namespace, maya_sel, left_down, grabber,
                       rubberBanding, pp_item, hist_len, tabs, curr_tab, edit_mode,
                       files, disk, removed, tab_scenes, tabs_dict, curr_scene,
                       viewport>>

\* a window as built, showing two shapes, whose view was never zoomed
InitZoom ==
    /\ selected \in {{}, {1}}
    /\ items = highlight_items((1 :> Templates[1]) @@ (2 :> Templates[2]), selected)
    /\ old_sel_items = SortedSeq(selected)
    /\ ref_item = NoItem
    /\ err = "none"
    /\ hist = <<>>
    /\ nops = 0
    /\ mode = "replace"
    /\ drag = FALSE
    /\ initial_mouse_pos = 0
    /\ namespace = NoNamespace
    /\ maya_sel = {}
    /\ left_down = FALSE
    /\ grabber = NoItem
    /\ rubberBanding = FALSE
    /\ pp_item = PreviewAsCreated
    /\ hist_len = 2
    /\ OneTabWindow

\* the angles a wheel reports: a notch up, a notch down, a sideways scroll
NextZoom == \E angle \in {120, -120, 0} : wheelEvent(angle)

SpecZoom == InitZoom /\ [][NextZoom]_vars

-----------------------------------------------------------------------------
(* PickerWindow.take_screenshot.  viewport is the set of display settings     *)
(* that are on in the host's active model editor; orig_flags is its value on  *)
(* entry and mel.eval(orig_flags) puts it back.                               *)

\* the settings modelEditor(edit=True, ...=False) turns off
HiddenForCapture ==
    {"allObjects", "selectionHiliteDisplay", "manipulators", "headsUpDisplay",
     "hulls", "grid", "holdOuts"}

\* the view isolated to the polygons
Isolated(flags) == (flags \ HiddenForCapture) \cup {"polymeshes"}

\* the names "screenshot_%03d.png" in the folder of the tab
ScreenshotFiles(tab_name) ==
    IF tab_name = ""
    THEN <<"screenshot_001.png", "screenshot_002.png", "screenshot_003.png",
           "screenshot_004.png", "screenshot_005.png">>
    ELSE IF tab_name = "Body"
    THEN <<"Body/screenshot_001.png", "Body/screenshot_002.png",
           "Body/screenshot_003.png", "Body/screenshot_004.png",
           "Body/screenshot_005.png">>
    ELSE <<"Face/screenshot_001.png", "Face/screenshot_002.png",
           "Face/screenshot_003.png", "Face/screenshot_004.png",
           "Face/screenshot_005.png">>

\* the first increment whose name is not in the folder
output_file(tab_name) ==
    LET names == ScreenshotFiles(tab_name)
    IN  names[Min({count \in 1..Len(names) : names[count] \notin disk})]

\* take_screenshot().  tab_dir says what the file system answers for the
\* folder of the tab: "exists", "made" by os.makedirs, or "refused" (os.makedirs
\* raises OSError); capture names the step after it that raises, "none" if
\* listdir and playblast succeed; windows tells whether the interpreter
\* defines the name WindowsError
take_screenshot(tab_dir, capture, windows) ==
    LET orig_flags    == viewport
        curr_tab_name == IF curr_tab = 0 THEN "" ELSE tabs[curr_tab].name
        output        == output_file(curr_tab_name)
        pixmap        == [GraphicsPixmap(output, TRUE) EXCEPT !.z = R(-1)]
    IN  /\ ~left_down
        /\ nops < MaxTabOps
        /\ Record([op |-> "take_screenshot", tab_dir |-> tab_dir,
                   capture |-> capture, windows |-> windows,
                   viewport |-> viewport, items |-> items, disk |-> disk,
                   curr_scene |-> curr_scene])
        /\ IF tab_dir = "refused"
           THEN \* except WindowsError: the name is evaluated when OSError arrives
                /\ viewport' = IF windows THEN orig_flags ELSE Isolated(viewport)
                /\ err' = IF windows THEN "none" ELSE "NameError"
                /\ UNCHANGED <<items, disk>>
           ELSE IF capture = "listdir"
           THEN /\ viewport' = Isolated(viewport)
                /\ err' = "OSError"
                /\ UNCHANGED <<items, disk>>
           ELSE IF capture = "playblast"
           THEN /\ viewport' = Isolated(viewport)
                /\ err' = "RuntimeError"
                /\ UNCHANGED <<items, disk>>
           ELSE IF curr_scene = NoItem
           THEN \* None.addItem(pixmap), after the file was written
                /\ viewport' = Isolated(viewport)
                /\ err' = "AttributeError"
                /\ disk' = disk \cup {output}
                /\ UNCHANGED items
           ELSE \* curr_scene is the scene of the tab shown
                /\ items' = (FreshItemId(items) :> pixmap) @@ items
                /\ disk' = disk \cup {output}
                /\ viewport' = orig_flags
                /\ err' = "none"
        /\ UNCHANGED <<selected, ref_item, old_sel_items, mode, drag,
                       initial_mouse_pos, namespace, maya_sel, left_down, grabber,
                       rubberBanding, pp_item, hist_len, tabs, curr_tab, edit_mode,
                       files, removed, tab_scenes, tabs_dict, curr_scene, zoom,
                       view_scale>>

NextShot ==
    \/ \E tab_dir \in {"exists", "made", "refused"},
          capture \in {"none", "listdir", "playblast"}, windows \in BOOLEAN :
            take_screenshot(tab_dir, capture, windows)
    \/ remove_tab
    \/ \E tab_name \in {"Face"} : create_tab(tab_name)

SpecShot == InitTabs /\ [][NextShot]_vars

-----------------------------------------------------------------------------
(* GraphicsScene.contextMenuEvent.  The entries of the menu call the handlers *)
(* of the window; an entry whose call raises leaves the state as it was.      *)

\* the entries of the menu opened over over_item
MenuOver(over_item) ==
    IF is_image(items, over_item) THEN {"Replace Image"}
    ELSE IF over_item # NoItem
    THEN {"Update Button", "Update Button Selection", "Delete", "Bring Forward",
          "Send Backward", "Align X", "Align Y", "Set as Ref Button",
          "Clear Ref Button", "Mirror"}
    ELSE {"New Button", "Clear Ref Button"}

\* the record of a menu entry kept in hist, with the state it started from
MenuRec(action, over_item) ==
    [ op |-> "contextMenuEvent", action |-> action, over_item |-> over_item,
      sel |-> selected, ref |-> ref_item, items |-> items, maya |-> maya_sel,
      pp |-> pp_item ]

\* the scene position of the view point pos
scenePos(pos) == QPointF(R(10 * pos), R(-5))

\* contextMenuEvent(event) at the view point pos, the user choosing `action`
\* ("" for closing the menu); mirror_x, mirror_on_combo and type_combo are the
\* mirror settings read by the entry "Mirror"
contextMenuEvent(pos, action, mirror_x, mirror_on_combo, type_combo) ==
    LET over_item == itemAt(pos)
    IN  /\ ~left_down
        /\ action \in MenuOver(over_item) \cup {""}
        /\ IF action \in {"", "Replace Image"}
           THEN \* no action; replace_pixmap only changes the picture drawn
                /\ nops < MaxOps
                /\ Record(MenuRec(action, over_item))
                /\ err' = "none"
                /\ UNCHANGED <<items, selected, ref_item>>
                /\ UNCHANGED viewVars
           ELSE IF action \in {"Update Button", "Update Button Selection", "Delete"}
           THEN \* update_btn(items=[over_item]), update_btn_selection(items=...),
                \* delete_btn(items=...): the parameter is named sel_items
                /\ nops < MaxOps
                /\ Record(MenuRec(action, over_item))
                /\ err' = "TypeError"
                /\ UNCHANGED <<items, selected, ref_item>>
                /\ UNCHANGED viewVars
           ELSE IF action = "Set as Ref Button"
           THEN \* set_ref_item(item=[over_item])
                /\ nops < MaxOps
                /\ Record(MenuRec(action, over_item))
                /\ ref_item' = over_item
                /\ err' = "none"
                /\ UNCHANGED <<items, selected>>
                /\ UNCHANGED viewVars
           ELSE IF action = "Bring Forward" THEN bring_forward
           ELSE IF action = "Send Backward" THEN send_backward
           ELSE IF action = "Align X" THEN align_by_x
           ELSE IF action = "Align Y" THEN align_by_y
           ELSE IF action = "Clear Ref Button" THEN clear_ref_item
           ELSE IF action = "Mirror"
           THEN mirror_sel_btns(mirror_x, ~mirror_x, mirror_on_combo, type_combo)
           ELSE create_btn(scenePos(pos))

MenuActions ==
    {"", "Replace Image", "Update Button", "Update Button Selection", "Delete",
     "Bring Forward", "Send Backward", "Align X", "Align Y", "Set as Ref Button",
     "Clear Ref Button", "Mirror", "New Button"}

NextMenu ==
    \E pos \in Points, action \in MenuActions, mirror_x \in BOOLEAN :
        contextMenuEvent(pos, action, mirror_x, MIRROR_ONS[1], MIRROR_TYPES[2])

SpecMenu == InitEdit /\ [][NextMenu]_vars

-----------------------------------------------------------------------------
(* PickerWindow.toggle_edit_mode / set_edit_mode *)

\* Qt unselects a selected item that is made unselectable
still_selected(scene, sel) ==
    {i \in sel : "ItemIsSelectable" \in scene[i].flags}

\* the scene of tab k is one of self.tabs_dict.values()
in_tabs_dict(k) == \E index \in DOMAIN tabs_dict : tabs_dict[index] = tab_scenes[k]

\* the flags of every item of every tab
all_flags ==
    [k \in 1..Len(tabs) |->
        [i \in DOMAIN scene_of_tab(k) |-> scene_of_tab(k)[i].flags]]

\* toggle_edit_mode(): the flag is flipped and set_edit_mode() run
toggle_edit_mode ==
    LET editable == ~edit_mode
    IN  /\ ~left_down
        /\ curr_tab # 0
        /\ RecordGesture([op |-> "toggle_edit_mode", edit_mode |-> edit_mode,
                          flags |-> all_flags])
        /\ edit_mode' = editable
        /\ items' = IF in_tabs_dict(curr_tab) THEN set_edit_mode(items, editable)
                    ELSE items
        /\ selected' = still_selected(items', selected)
        /\ tabs' = [k \in 1..Len(tabs) |->
                       IF k = curr_tab \/ ~in_tabs_dict(k) THEN tabs[k]
                       ELSE LET st  == tabs[k].state[1]
                                new == set_edit_mode(st.items, editable)
                            IN  Tab(tabs[k].name,
                                    <<[st EXCEPT !.items = new,
                                                 !.selected = still_selected(new, @)]>>)]
        /\ err' = "none"
        /\ UNCHANGED <<ref_item, old_sel_items, mode, drag, initial_mouse_pos,
                       namespace, maya_sel, left_down, grabber, rubberBanding,
                       pp_item, hist_len, curr_tab, files, disk, removed, widgetVars>>

\* a window in edit mode showing two shapes and an image, two controls
\* selected in the host
InitMode ==
    /\ selected \in {{}, {1}, {3}}
    /\ items = highlight_items(
                  (1 :> Templates[1]) @@ (2 :> Templates[2])
                  @@ (3 :> setPos(GraphicsPixmap("front.png", TRUE), <<R(-40), R(-40)>>)),
                  selected)
    /\ old_sel_items = SortedSeq(selected)
    /\ ref_item = NoItem
    /\ maya_sel = {"ctrl_a", "ctrl_b"}
    /\ pp_item = PreviewAsCreated
    /\ err = "none"
    /\ hist = <<>>
    /\ nops = 0
    /\ mode = "replace"
    /\ drag = FALSE
    /\ initial_mouse_pos = 0
    /\ namespace = NoNamespace
    /\ left_down = FALSE
    /\ grabber = NoItem
    /\ rubberBanding = FALSE
    /\ hist_len = 2
    /\ OneTabWindow

\* the menu bar and the canvas stay enabled when edit mode is off; the
\* screenshot button is in a group box that set_edit_mode disables
NextMode ==
    \/ toggle_edit_mode
    \/ \E pos \in Points, action \in {"New Button", "Mirror"} :
            contextMenuEvent(pos, action, TRUE, MIRROR_ONS[1], MIRROR_TYPES[1])
    \/ edit_mode /\ take_screenshot("exists", "none", TRUE)
    \/ save_xml_file("picker.xml", <<1>>)
    \/ load_xml_file("picker.xml")

SpecMode == InitMode /\ [][NextMode]_vars

-----------------------------------------------------------------------------
(* PickerWindow.update_width / update_height: the spin boxes of the preview.  *)
(* QRect is built with float(value); int_from_float tells whether the binding *)
(* converts it to the int the constructor takes or raises TypeError.  The     *)
(* slider that follows the spin box ends showing min(value, 100); the         *)
(* rectangle ends with `value` in both cases.                                 *)

\* update_width(value)
update_width(value, int_from_float) ==
    /\ ~left_down
    /\ RecordGesture(EditRec("update_width", <<>>))
    /\ IF value = 0
       THEN /\ err' = "none"
            /\ UNCHANGED pp_item
       ELSE IF ~int_from_float
       THEN /\ err' = "TypeError"
            /\ UNCHANGED pp_item
       ELSE /\ err' = "none"
            /\ pp_item' = update_bounding_rect(pp_item,
                              [w |-> value, h |-> pp_item.set_rect.h])
    /\ UNCHANGED <<items, selected, ref_item, old_sel_items, mode, drag,
                   initial_mouse_pos, namespace, maya_sel, left_down, grabber,
                   rubberBanding, hist_len, tabs, curr_tab, edit_mode, files, disk,
                   removed, widgetVars>>

\* update_height(value)
update_height(value, int_from_float) ==
    /\ ~left_down
    /\ RecordGesture(EditRec("update_height", <<>>))
    /\ IF value = 0
       THEN /\ err' = "none"
            /\ UNCHANGED pp_item
       ELSE IF ~int_from_float
       THEN /\ err' = "TypeError"
            /\ UNCHANGED pp_item
       ELSE /\ err' = "none"
            /\ pp_item' = update_bounding_rect(pp_item,
                              [w |-> pp_item.set_rect.w, h |-> value])
    /\ UNCHANGED <<items, selected, ref_item, old_sel_items, mode, drag,
                   initial_mouse_pos, namespace, maya_sel, left_down, grabber,
                   rubberBanding, hist_len, tabs, curr_tab, edit_mode, files, disk,
                   removed, widgetVars>>

\* values of the spin boxes (their range is 25..200)
WidthValues == {40, 150}

HeightValues == {60}

\* a window showing a rectangle and a custom shape, one or both selected, a
\* control or a curve selected in the host
InitShape ==
    /\ selected \in {{1}, {1, 2}}
    /\ items = highlight_items((1 :> Templates[1]) @@ (2 :> Templates[2]), selected)
    /\ old_sel_items = SortedSeq(selected)
    /\ ref_item = NoItem
    /\ maya_sel \in {{"ctrl_a"}, {"curveShape1"}}
    /\ pp_item \in {PreviewAsCreated, PreviewCustom}
    /\ err = "none"
    /\ hist = <<>>
    /\ nops = 0
    /\ mode = "replace"
    /\ drag = FALSE
    /\ initial_mouse_pos = 0
    /\ namespace = NoNamespace
    /\ left_down = FALSE
    /\ grabber = NoItem
    /\ rubberBanding = FALSE
    /\ hist_len = 1
    /\ OneTabWindow

NextShape ==
    \/ \E value \in WidthValues, int_from_float \in BOOLEAN :
            update_width(value, int_from_float)
    \/ \E value \in HeightValues, int_from_float \in BOOLEAN :
            update_height(value, int_from_float)
    \/ \E new_text \in {SHAPES[1], SHAPES[2], SHAPES[3]} : update_shape(new_text)
    \/ \E creation_points \in Curves : get_shape_from_scene(creation_points)
    \/ \E order \in Perms(selected) : update_btn(<<>>, order)
    \/ create_btn(NoPoint)
    \/ \E type_combo \in {MIRROR_TYPES[1], MIRROR_TYPES[2]} :
            mirror_sel_btns(TRUE, FALSE, MIRROR_ONS[1], type_combo)
    \/ save_xml_file("picker.xml", <<1>>)
    \/ load_xml_file("picker.xml")

SpecShape == InitShape /\ [][NextShape]_vars

-----------------------------------------------------------------------------
(* The selection state machine with update_btn between the gestures.  hist    *)
(* keeps the last two gestures (press, release, press, release is four        *)
(* entries, the oldest press is not read).                                    *)

InitToggle ==
    /\ items = (1 :> Templates[1]) @@ (2 :> Templates[2])
    /\ selected = {}
    /\ ref_item = NoItem
    /\ err = "none"
    /\ hist = <<>>
    /\ nops = 0
    /\ old_sel_items = <<>>
    /\ mode = "unset"
    /\ drag = FALSE
    /\ initial_mouse_pos = NoPos
    /\ namespace = NoNamespace
    /\ maya_sel = {}
    /\ left_down = FALSE
    /\ grabber = NoItem
    /\ rubberBanding = FALSE
    /\ pp_item = PreviewAsCreated
    /\ hist_len = 3
    /\ OneTabWindow

NextToggle ==
    \/ \E pos \in Points, modifiers \in {{}, {"ShiftModifier"}} :
            mousePressEvent(pos, modifiers)
    \/ \E pos \in Points, over \in {NoItem} \cup DOMAIN items, band \in SUBSET DOMAIN items,
          forwarded \in BOOLEAN :
            leftMouseButtonRelease(pos, over, band, FALSE, forwarded)
    \/ \E order \in Perms(selected) : update_btn(<<>>, order)

SpecToggle == InitToggle /\ [][NextToggle]_vars

-----------------------------------------------------------------------------
(* Vocabulary of the properties of mirror and align.  It is written from the *)
(* geometry of a shape (top-left corner and bounding size), not from the     *)
(* operators of the handlers.                                                *)

Half(n) == Rat(n, 2)

CenterOf(b) ==
    <<RAdd(b.pos[1], Half(b.set_rect.w)), RAdd(b.pos[2], Half(b.set_rect.h))>>

\* the top-left corner that puts the center of shape b at c
TopLeftAt(c, b) ==
    <<RSub(c[1], Half(b.set_rect.w)), RSub(c[2], Half(b.set_rect.h))>>

\* c with the coordinate of every checked axis negated
Negated(c, on_x, on_y) ==
    <<IF on_x THEN RNeg(c[1]) ELSE c[1], IF on_y THEN RNeg(c[2]) ELSE c[2]>>

\* c with the coordinate of every checked axis replaced by 2r - c
ReflectedAbout(c, r, on_x, on_y) ==
    <<IF on_x THEN RSub(RMul(R(2), r[1]), c[1]) ELSE c[1],
      IF on_y THEN RSub(RMul(R(2), r[2]), c[2]) ELSE c[2]>>

\* the points with every checked axis coordinate replaced by 25 minus it
PointsMirrored(coords, on_x, on_y) ==
    [k \in 1..Len(coords) |->
        <<IF on_x THEN RSub(R(25), coords[k][1]) ELSE coords[k][1],
          IF on_y THEN RSub(R(25), coords[k][2]) ELSE coords[k][2]>>]

InUnitBox(coords) ==
    \A k \in 1..Len(coords) :
        /\ RLeq(R(0), coords[k][1]) /\ RLeq(coords[k][1], R(25))
        /\ RLeq(R(0), coords[k][2]) /\ RLeq(coords[k][2], R(25))

\* the last handler run was mirror_sel_btns
LastMirror == hist # <<>> /\ hist[1].op = "mirror_sel_btns"

\* ... and it had something to mirror: a selection and an axis
LastMirrorActed ==
    /\ LastMirror
    /\ hist[1].sel # {}
    /\ hist[1].mirror_x \/ hist[1].mirror_y

\* the shapes the last handler added to the scene
NewShapes == DOMAIN items \ DOMAIN hist[1].items

\* the center the last mirror owes to the shape that had center c
OwedCenter(c) ==
    IF hist[1].mirror_on = "Ref Shape" /\ hist[1].ref # NoItem
    THEN ReflectedAbout(c, CenterOf(hist[1].items[hist[1].ref]),
                        hist[1].mirror_x, hist[1].mirror_y)
    ELSE Negated(c, hist[1].mirror_x, hist[1].mirror_y)

RECURSIVE SumOver(_, _)
SumOver(S, val) ==
    IF S = {} THEN R(0)
    ELSE LET i == CHOOSE j \in S : TRUE IN RAdd(val[i], SumOver(S \ {i}, val))

\* arithmetic mean of val over the non-empty set S
MeanOver(S, val) == RDiv(SumOver(S, val), R(Cardinality(S)))

-----------------------------------------------------------------------------
C2_MirrorInvolution ==
    ( /\ Len(hist) = 2
      /\ hist[1].op = "mirror_sel_btns" /\ hist[2].op = "mirror_sel_btns"
      /\ hist[1].mirror_on = "World" /\ hist[2].mirror_on = "World"
      /\ hist[1].mirror_x = hist[2].mirror_x /\ hist[1].mirror_y = hist[2].mirror_y
      /\ hist[1].mirror_x \/ hist[1].mirror_y
      /\ hist[1].mirror_type = hist[2].mirror_type
      /\ hist[1].sel = hist[2].sel )
    => \A i \in hist[2].sel :
          /\ CenterOf(items[i]) = CenterOf(hist[2].items[i])
          /\ items[i].curr_coords = hist[2].items[i].curr_coords

\* a Custom shape was moved and its points changed by the first mirror, and
\* the second mirror has run
C2_Witness ==
    /\ Len(hist) = 2
    /\ hist[1].op = "mirror_sel_btns" /\ hist[2].op = "mirror_sel_btns"
    /\ hist[1].mirror_on = "World" /\ hist[2].mirror_on = "World"
    /\ hist[1].mirror_x /\ hist[2].mirror_x
    /\ hist[1].mirror_y = hist[2].mirror_y
    /\ hist[1].mirror_type = "Use Existing" /\ hist[2].mirror_type = "Use Existing"
    /\ hist[1].sel = hist[2].sel
    /\ \E i \in hist[2].sel :
          /\ hist[2].items[i].curr_shape = "Custom"
          /\ CenterOf(hist[1].items[i]) # CenterOf(hist[2].items[i])
          /\ hist[1].items[i].curr_coords # hist[2].items[i].curr_coords
          /\ items[i].curr_coords = hist[2].items[i].curr_coords

C5_AllShapesPointsMirrored ==
    LastMirrorActed
    => \A i \in hist[1].sel :
          LET old  == hist[1].items[i]
              want == PointsMirrored(old.curr_coords, hist[1].mirror_x, hist[1].mirror_y)
          IN  IF hist[1].mirror_type = "Use Existing"
              THEN items[i].curr_coords = want
              ELSE \E j \in NewShapes :
                      /\ items[j].pos = TopLeftAt(OwedCenter(CenterOf(old)), old)
                      /\ items[j].curr_coords = want

(* C5: after a mirror, a Custom shape mirrored under 'Use Existing' and the  *)
(* new copy of any shape under 'Duplicate' store the points of the original  *)
(* with each checked axis coordinate replaced by 25 minus it and each        *)
(* unchecked one unchanged, in the same number and order, points of [0,25]   *)
(* staying in [0,25]; a Rect or Rounded Rect mirrored under 'Use Existing'   *)
(* keeps its stored points as they were.                                     *)
C5_PointsMirrored ==
    LastMirrorActed
    => /\ err = "none"
       /\ \A i \in hist[1].sel :
          LET old  == hist[1].items[i]
              want == PointsMirrored(old.curr_coords, hist[1].mirror_x, hist[1].mirror_y)
          IN  /\ Len(want) = Len(old.curr_coords)
              /\ InUnitBox(old.curr_coords) => InUnitBox(want)
              /\ IF hist[1].mirror_type = "Use Existing"
                 THEN items[i].curr_coords =
                         IF old.curr_shape = "Custom" THEN want ELSE old.curr_coords
                 ELSE \E j \in NewShapes :
                         /\ items[j].pos = TopLeftAt(OwedCenter(CenterOf(old)), old)
                         /\ items[j].curr_shape = old.curr_shape
                         /\ items[j].curr_coords = want

\* a Custom shape and a shape of another kind were mirrored together on both
\* axes under 'Use Existing': the points of the first changed
C5_Witness ==
    /\ LastMirrorActed
    /\ hist[1].mirror_type = "Use Existing"
    /\ hist[1].mirror_x /\ hist[1].mirror_y
    /\ \E i, k \in hist[1].sel :
          /\ hist[1].items[i].curr_shape = "Custom"
          /\ items[i].curr_coords # hist[1].items[i].curr_coords
          /\ items[i].curr_coords[2] = <<R(0), R(15)>>
          /\ hist[1].items[k].curr_shape # "Custom"
          /\ items[k].pos # hist[1].items[k].pos

-----------------------------------------------------------------------------
(* Vocabulary of the properties of the selection state machine *)

LastPress == hist # <<>> /\ hist[1].op = "mousePressEvent"

LastRelease == hist # <<>> /\ hist[1].op = "leftMouseButtonRelease"

\* the set the view persists
Persisted == {old_sel_items[k] : k \in 1..Len(old_sel_items)}

\* the merge of the struck set C into the persisted set S in mode m; dragged
\* tells whether an item was dragged
Merged(m, S, C, dragged) ==
    CASE m = "replace"  -> IF dragged THEN S \cup C ELSE C
      [] m = "add"      -> S \cup C
      [] m = "subtract" -> S \ C
      [] m = "toggle"   -> (S \cup (C \ S)) \ (C \cap S)

\* the modifier combinations the four modes are chosen by
PlainModifiers == SUBSET {"ShiftModifier", "ControlModifier"}

\* selection mode per modifier combination as the code has it
ModeOfModifiers(modifiers) ==
    CASE modifiers = {}                                   -> "replace"
      [] modifiers = {"ShiftModifier", "ControlModifier"} -> "add"
      [] modifiers = {"ShiftModifier"}                    -> "toggle"
      [] modifiers = {"ControlModifier"}                  -> "subtract"

\* selection mode per modifier combination with shift -> Subtract, ctrl -> Toggle
ModeOfModifiersShiftSubtract(modifiers) ==
    CASE modifiers = {}                                   -> "replace"
      [] modifiers = {"ShiftModifier", "ControlModifier"} -> "add"
      [] modifiers = {"ShiftModifier"}                    -> "subtract"
      [] modifiers = {"ControlModifier"}                  -> "toggle"

(* C9 as first stated: a left-button press puts the view in the mode of the  *)
(* modifiers held: none -> Replace, ctrl+shift -> Add, shift -> Subtract,    *)
(* ctrl -> Toggle, and the following release merges in that mode.            *)
C9_ShiftSubtractCtrlToggle ==
    /\ (LastPress /\ hist[1].modifiers \in PlainModifiers)
       => mode = ModeOfModifiersShiftSubtract(hist[1].modifiers)
    /\ (LastRelease /\ hist[1].modifiers \in PlainModifiers)
       => /\ hist[1].mode = ModeOfModifiersShiftSubtract(hist[1].modifiers)
          /\ Persisted = Merged(ModeOfModifiersShiftSubtract(hist[1].modifiers),
                                hist[1].S, hist[1].C,
                                hist[1].moved /\ hist[1].pressed_on # NoItem)

(* C9: a left-button press puts the view in the mode of the modifiers held:  *)
(* none -> Replace, ctrl+shift -> Add, shift -> Toggle, ctrl -> Subtract,    *)
(* and the following release merges the selection in that mode.              *)
C9_ModePerModifier ==
    /\ (LastPress /\ hist[1].modifiers \in PlainModifiers)
       => mode = ModeOfModifiers(hist[1].modifiers)
    /\ (LastRelease /\ hist[1].modifiers \in PlainModifiers)
       => /\ hist[1].mode = ModeOfModifiers(hist[1].modifiers)
          /\ Persisted = Merged(ModeOfModifiers(hist[1].modifiers),
                                hist[1].S, hist[1].C,
                                hist[1].moved /\ hist[1].pressed_on # NoItem)

\* a shift gesture over one selected and one unselected item has been released:
\* the first left the persisted set, the second joined it
C9_Witness ==
    /\ LastRelease
    /\ hist[1].modifiers = {"ShiftModifier"}
    /\ \E a \in hist[1].C \cap hist[1].S, b \in hist[1].C \ hist[1].S :
          /\ a # NoItem /\ b # NoItem
          /\ a \notin Persisted
          /\ b \in Persisted

(* C10: after a left-button release, the persisted set is, S being the set   *)
(* persisted before and C the struck set (None among its members when the    *)
(* cursor struck no shape): in Replace mode C if no item was dragged and     *)
(* S u C if one was, in Add mode S u C, in Subtract mode S \ C, in Toggle    *)
(* mode (S u (C \ S)) \ (C n S); the persisted list holds no item twice.     *)
C10_SelectionMerge ==
    LastRelease
    => /\ Persisted = Merged(hist[1].mode, hist[1].S, hist[1].C,
                             hist[1].moved /\ hist[1].pressed_on # NoItem)
       /\ \A j, k \in 1..Len(old_sel_items) :
             old_sel_items[j] = old_sel_items[k] => j = k
       /\ Cardinality(Persisted) = Len(old_sel_items)

\* a shape was dragged in Replace mode while another shape was persisted, and
\* both are persisted now
C10_Witness ==
    /\ LastRelease
    /\ hist[1].mode = "replace"
    /\ hist[1].moved /\ hist[1].pressed_on # NoItem
    /\ hist[1].S # {}
    /\ hist[1].pressed_on \notin hist[1].S
    /\ hist[1].S \subseteq Persisted
    /\ hist[1].pressed_on \in Persisted
    /\ Len(old_sel_items) = 2

\* the buttons ("shapes") among the items S
ShapesOf(S) == {i \in S \cap DOMAIN items : items[i].kind = "GraphicsButton"}

\* the last two gestures were Toggle-mode press / release pairs over the same
\* struck set, nothing else having run between them (needs hist_len >= 3)
TwoToggles ==
    /\ Len(hist) >= 3
    /\ hist[1].op = "leftMouseButtonRelease" /\ hist[1].mode = "toggle"
    /\ hist[2].op = "mousePressEvent"
    /\ hist[3].op = "leftMouseButtonRelease" /\ hist[3].mode = "toggle"
    /\ hist[1].C = hist[3].C

\* C11 (as stated): after two consecutive Toggle gestures over the same struck
\* set C, the persisted selection and the set of shapes selected on the canvas
\* are what they were before the first gesture.
C11_ToggleInvolution ==
    TwoToggles =>
        /\ Persisted = hist[3].S
        /\ ShapesOf(selected) = ShapesOf(hist[3].sel_before)

\* C11, the part the code keeps: two consecutive Toggle gestures over the same
\* struck set C leave the persisted selection what it was before the first.
C11_PersistedRestored ==
    TwoToggles => Persisted = hist[3].S

\* two toggles over a non-empty struck set, begun with a button in the persisted
\* selection that is not selected on the canvas: the persisted selection is
\* back, the canvas selection is not
C11_Witness ==
    /\ TwoToggles
    /\ ShapesOf(hist[1].C) # {}
    /\ ShapesOf(hist[3].S) # {}
    /\ hist[3].sel_before = {}
    /\ Persisted = hist[3].S
    /\ ShapesOf(selected) = ShapesOf(hist[3].S)

\* C12 (as stated): after a left-button release that reached the scene, an item
\* is selected in the scene exactly if it is in the persisted selection, and a
\* shape is drawn highlighted exactly if it is selected.
C12_SelectedIffPersisted ==
    (LastRelease /\ hist[1].to_scene) =>
        /\ \A i \in DOMAIN items : i \in selected <=> i \in Persisted
        /\ \A i \in ShapesOf(DOMAIN items) : items[i].highlight <=> i \in selected

\* a plain click on the image: the release left the image selected in the scene
\* and the persisted selection without it
C12_Witness ==
    /\ LastRelease /\ hist[1].to_scene
    /\ hist[1].modifiers = {} /\ ~hist[1].moved
    /\ \E i \in selected : items[i].kind = "GraphicsPixmap" /\ i \notin Persisted

\* the name the host is asked to select for the stored name n under namespace ns
Qualified(ns, n) == IF ns # NoNamespace /\ ns # "" THEN ns \o ":" \o n ELSE n

\* the names the shapes S reference, qualified, that resolve in the host
HostNamesOf(S, ns) ==
    {name \in MayaNodes :
        \E i \in ShapesOf(S) : \E k \in 1..Len(items[i].sel_objs) :
            name = Qualified(ns, items[i].sel_objs[k])}

-----------------------------------------------------------------------------
(* Vocabulary of the properties of the XML files *)

\* the buttons ("shapes") and the images of a scene
ButtonsOf(scene) == {i \in DOMAIN scene : scene[i].kind = "GraphicsButton"}

ImagesOf(scene) == {i \in DOMAIN scene : scene[i].kind = "GraphicsPixmap"}

RAbs(a) == IF a[1] < 0 THEN RNeg(a) ELSE a

\* v is r to k decimals: a multiple of 10^-k at most half a unit away from r
ToDecimals(v, r, k) ==
    /\ Pow10(k) % v[2] = 0
    /\ RLeq(RMul(RAbs(RSub(v, r)), R(2 * Pow10(k))), R(1))

\* the loaded button c has what the claim lists of the original button b
SameShape(b, c) ==
    /\ c.set_rect = b.set_rect
    /\ c.brush_col = b.brush_col
    /\ c.text = b.text
    /\ c.curr_shape = b.curr_shape
    /\ c.sel_objs = b.sel_objs
    /\ ToDecimals(c.pos[1], b.pos[1], 2)
    /\ ToDecimals(c.pos[2], b.pos[2], 2)
    /\ ToDecimals(c.z, b.z, 2)
    /\ Len(c.curr_coords) = Len(b.curr_coords)
    /\ \A n \in 1..Len(b.curr_coords) :
          /\ ToDecimals(c.curr_coords[n][1], b.curr_coords[n][1], 3)
          /\ ToDecimals(c.curr_coords[n][2], b.curr_coords[n][2], 3)

\* the shapes of the two scenes correspond one-to-one
ShapesCorrespond(original, loaded) ==
    \E f \in [ButtonsOf(original) -> ButtonsOf(loaded)] :
        /\ \A i, j \in ButtonsOf(original) : f[i] = f[j] => i = j
        /\ \A c \in ButtonsOf(loaded) : \E i \in ButtonsOf(original) : f[i] = c
        /\ \A i \in ButtonsOf(original) : SameShape(original[i], loaded[f[i]])

\* the last two operations: save_xml_file wrote some tabs to a file and
\* load_xml_file was then given that file
SavedThenLoaded ==
    /\ Len(hist) = 2
    /\ hist[1].op = "load_xml_file" /\ hist[2].op = "save_xml_file"
    /\ hist[1].filename # "" /\ hist[1].filename = hist[2].filename
    /\ hist[2].tab_list # <<>>

\* every exported tab came back as a new tab whose shapes correspond
TabsCameBack ==
    /\ err = "none"
    /\ Len(tabs) = Len(hist[1].names) + Len(hist[2].tab_list)
    /\ \A j \in 1..Len(hist[2].tab_list) :
          ShapesCorrespond(hist[2].scenes[hist[2].tab_list[j]],
                           scene_of_tab(Len(hist[1].names) + j))

\* C14 (as stated): for every tab, exporting it and importing the file yields a
\* new tab whose shapes correspond one-to-one to the original shapes, with the
\* same size, color, text, kind and names, position and z to 2 decimals and
\* points to 3 decimals.
C14_RoundTrip ==
    SavedThenLoaded => TabsCameBack

\* C14 for the tabs whose names are XML names: the round trip as claimed.
C14_RoundTripOfXmlNames ==
    (SavedThenLoaded /\ \A j \in 1..Len(hist[2].tab_list) :
                            hist[2].names[hist[2].tab_list[j]] \notin NotXmlNames)
        => TabsCameBack

\* the tab "Face Picker" was exported with a button in it and the file was
\* loaded: the parser raised and no tab came of it
C14_Witness ==
    /\ SavedThenLoaded
    /\ \E j \in 1..Len(hist[2].tab_list) :
          /\ hist[2].names[hist[2].tab_list[j]] = "Face Picker"
          /\ ButtonsOf(hist[2].scenes[hist[2].tab_list[j]]) # {}
    /\ err = "ParseError"
    /\ Len(tabs) = Len(hist[1].names)

\* a round trip that worked, of a button off the grids of the decimals
C14_RoundTripReached ==
    /\ SavedThenLoaded /\ TabsCameBack
    /\ \E i \in ButtonsOf(items) : items[i].text = "L arm"

\* the decimal number a formatted string reads as
Stored(str) == Rat(str.q, Pow10(str.k))

\* load_xml_file was the last operation, given a file it could read
LoadedFile ==
    /\ hist # <<>> /\ hist[1].op = "load_xml_file"
    /\ hist[1].filename # "" /\ hist[1].file # <<>>
    /\ \A j \in 1..Len(hist[1].file[1]) : hist[1].file[1][j].tag \notin NotXmlNames

\* the image item p is what the claim says of the image entry e
ImageOfEntry(p, e) ==
    /\ p.pos = <<Stored(e.pos.x), Stored(e.pos.y)>>
    /\ p.z = Stored(e.pos.z)
    /\ IF e.filepath \in hist[1].disk
       THEN p.good_img /\ p.file_path = e.filepath
       ELSE ~p.good_img /\ p.file_path = "config/lost_image.png"

\* C15: load_xml_file adds one image item per image entry of every tab of the
\* file: with the placeholder image and validity flag false if the stored path
\* does not exist, with its own path and flag true if it does, at the stored
\* x, y, z either way; and the shapes of every tab are loaded beside them.
C15_MissingImage ==
    LoadedFile =>
        /\ err = "none"
        /\ Len(tabs) = Len(hist[1].names) + Len(hist[1].file[1])
        /\ \A j \in 1..Len(hist[1].file[1]) :
              LET entries == hist[1].file[1][j].IMAGES
                  scene   == scene_of_tab(Len(hist[1].names) + j)
              IN  /\ Cardinality(ButtonsOf(scene)) = Len(hist[1].file[1][j].SHAPES)
                  /\ \E f \in [1..Len(entries) -> ImagesOf(scene)] :
                        /\ \A m, n \in 1..Len(entries) : f[m] = f[n] => m = n
                        /\ \A p \in ImagesOf(scene) : \E m \in 1..Len(entries) : f[m] = p
                        /\ \A m \in 1..Len(entries) : ImageOfEntry(scene[f[m]], entries[m])

\* a file with two tabs was loaded whose first tab has an image that is missing,
\* an image that exists and buttons: the placeholder is in the tab, the other
\* image and the buttons too, and the second tab was loaded after it
C15_Witness ==
    /\ LoadedFile
    /\ Len(hist[1].file[1]) = 2
    /\ LET scene == scene_of_tab(Len(hist[1].names) + 1)
       IN  /\ \E p \in ImagesOf(scene) : ~scene[p].good_img /\ scene[p].z = R(-1)
           /\ \E p \in ImagesOf(scene) : scene[p].good_img
           /\ ButtonsOf(scene) # {}
    /\ ButtonsOf(items) # {}

\* save_xml_file was the last operation and wrote a file
SavedFile ==
    /\ hist # <<>> /\ hist[1].op = "save_xml_file"
    /\ hist[1].filename # ""

TwoDigits == <<"01", "02", "03", "04", "05", "06", "07", "08", "09">>

\* the elements are named prefix_01, prefix_02, ... in their order
NumberedFromOne(elements, prefix) ==
    \A n \in 1..Len(elements) : elements[n].tag = prefix \o "_" \o TwoDigits[n]

\* C16: in every exported tab the SHAPES group has one element per shape of the
\* tab, named shape_01 .. shape_N, and the IMAGES group one element per image,
\* named image_01 .. image_M, each count starting at 1 in every tab.
C16_ElementNumbering ==
    SavedFile =>
        LET root == files[hist[1].filename][1]
        IN  /\ Len(root) = Len(hist[1].tab_list)
            /\ \A j \in 1..Len(root) :
                  LET scene == hist[1].scenes[hist[1].tab_list[j]]
                  IN  /\ Len(root[j].SHAPES) = Cardinality(ButtonsOf(scene))
                      /\ Len(root[j].IMAGES) = Cardinality(ImagesOf(scene))
                      /\ NumberedFromOne(root[j].SHAPES, "shape")
                      /\ NumberedFromOne(root[j].IMAGES, "image")

\* two tabs were exported, the first with two buttons between two images in
\* the stacking order, the second with a button
C16_Witness ==
    /\ SavedFile
    /\ Len(hist[1].tab_list) = 2
    /\ LET root == files[hist[1].filename][1]
       IN  /\ Len(root[1].SHAPES) = 2 /\ Len(root[1].IMAGES) = 2
           /\ root[1].IMAGES[1].filepath = "side.png"
           /\ root[1].IMAGES[2].filepath = "front.png"
           /\ Len(root[2].SHAPES) = 1

\* load_xml_file was the last operation, given the path of no file
LoadedMissingFile ==
    /\ hist # <<>> /\ hist[1].op = "load_xml_file"
    /\ hist[1].filename # "" /\ hist[1].file = <<>>

\* the tabs and their scenes are what they were before the last operation
TabsUnchanged ==
    /\ Len(tabs) = Len(hist[1].names)
    /\ \A k \in 1..Len(tabs) :
          tabs[k].name = hist[1].names[k] /\ scene_of_tab(k) = hist[1].scenes[k]

\* C17 (as stated): load_xml_file given a path that does not exist raises no
\* exception and leaves the tabs and their shapes and images unchanged.
C17_MissingFileAborts ==
    LoadedMissingFile => (err = "none" /\ TabsUnchanged)

\* load_xml_file was given a path that does not exist: the tabs are unchanged
\* and FileNotFoundError was raised
C17_Witness ==
    /\ LoadedMissingFile
    /\ TabsUnchanged
    /\ err = "FileNotFoundError"

-----------------------------------------------------------------------------
(* The handlers that work on the canvas selection *)

SelectionHandlers ==
    {"mirror_sel_btns", "bring_forward", "send_backward", "update_btn",
     "update_btn_selection", "delete_btn", "set_ref_item"}

\* what a tab shows of its buttons: position, z-order, geometry, colour, label
\* and referenced names of each
AppearanceOf(scene) ==
    [i \in ButtonsOf(scene) |->
        [ pos |-> scene[i].pos, z |-> scene[i].z, set_rect |-> scene[i].set_rect,
          curr_shape |-> scene[i].curr_shape, curr_coords |-> scene[i].curr_coords,
          set_polygon |-> scene[i].set_polygon, brush_col |-> scene[i].brush_col,
          text |-> scene[i].text, sel_objs |-> scene[i].sel_objs ]]

\* the last operation was one of the handlers, called without an item list
\* while no button was selected
NoShapeSelected ==
    /\ Len(hist) >= 1
    /\ hist[1].op \in SelectionHandlers
    /\ hist[1].op \in {"update_btn", "update_btn_selection", "delete_btn"}
          => hist[1].sel_items = <<>>
    /\ hist[1].sel \cap ButtonsOf(hist[1].items) = {}

\* the last operation raised nothing and left the buttons and the reference
LeftAlone ==
    /\ err = "none"
    /\ AppearanceOf(items) = AppearanceOf(hist[1].items)
    /\ ref_item = hist[1].ref

\* C18: when no shape is selected and no item list is passed, each of
\* mirror_sel_btns, bring_forward, send_backward, update_btn,
\* update_btn_selection, delete_btn and set_ref_item raises no error and leaves
\* every shape's position, z-order, geometry, colour, label and names, the
\* reference shape and the set of shapes unchanged.
C18_NoShapeSelectedNoOp == NoShapeSelected => LeftAlone

\* C18, the case the code handles: with nothing at all selected each of the
\* seven handlers returns at once, the scene and the selection being as before
C18_NothingSelectedNoOp ==
    (NoShapeSelected /\ hist[1].sel = {})
        => LeftAlone /\ items = hist[1].items /\ selected = {}

\* C18: update_btn ran with only the image selected and raised AttributeError
C18_Witness ==
    /\ NoShapeSelected
    /\ hist[1].op = "update_btn"
    /\ hist[1].sel = {3}
    /\ err = "AttributeError"

\* C18: set_ref_item ran with only the image selected and made it the reference
C18_ImageBecameReference ==
    /\ NoShapeSelected
    /\ hist[1].op = "set_ref_item"
    /\ hist[1].ref = NoItem
    /\ ref_item = 3


-----------------------------------------------------------------------------
\* the last operation was an align with nothing selected on the tab
AlignedNothing ==
    /\ Len(hist) >= 1
    /\ hist[1].op \in {"align_by_x", "align_by_y"}
    /\ hist[1].sel = {}

\* C19: align_by_x or align_by_y invoked while no shape is selected, whether
\* or not a reference shape is designated, returns without raising an error
\* and without changing any shape.
C19_AlignEmptySelection ==
    AlignedNothing => err = "none" /\ items = hist[1].items

\* C19, the case the code handles: with a reference designated the loop over
\* the empty selection does nothing
C19_AlignEmptySelectionWithRef ==
    (AlignedNothing /\ hist[1].ref # NoItem) => err = "none" /\ items = hist[1].items

\* C19: an align with nothing selected and no reference divided by zero
C19_Witness ==
    /\ AlignedNothing
    /\ hist[1].ref = NoItem
    /\ err = "ZeroDivisionError"
    /\ items = hist[1].items

\* C19: an align with nothing selected and a reference designated ran
C19_WithRefReached == AlignedNothing /\ hist[1].ref # NoItem

-----------------------------------------------------------------------------
\* the nodes selected in the host, of sel, whose type is one of types
OfType(sel, types) == {name \in sel : NodeType(name) \in types}

\* list holds each member of S once and nothing else
ListsExactly(list, S) ==
    /\ Len(list) = Cardinality(S)
    /\ {list[k] : k \in 1..Len(list)} = S

\* get_selected_items(multi, type) answers as specified for the host selection
NullOrSelected(multi, type) ==
    LET wanted == OfType(maya_sel, type)
    IN  IF wanted = {} \/ (~multi /\ Cardinality(wanted) > 1)
        THEN get_selected_items(multi, type) = <<>>
        ELSE ListsExactly(get_selected_items(multi, type), wanted)

\* the last operation was create_btn with no transform selected in the host
CreatedWithoutSelection ==
    /\ Len(hist) >= 1
    /\ hist[1].op = "create_btn"
    /\ OfType(hist[1].maya, {"transform"}) = {}

\* C20: get_selected_items returns a null result when the host has no selected
\* object of the requested type, and when one object is required (multi=False)
\* but more than one is selected; otherwise it returns the selected objects.
\* create_btn invoked while the host has no valid selection adds no shape to
\* the tab and changes nothing.
C20_InvalidHostSelection ==
    /\ \A multi \in BOOLEAN, type \in {{"transform"}, {"nurbsCurve"}} :
          NullOrSelected(multi, type)
    /\ CreatedWithoutSelection
          => /\ items = hist[1].items
             /\ selected = hist[1].sel
             /\ ref_item = hist[1].ref
             /\ pp_item = hist[1].pp
             /\ err = "none"

\* C20, through get_shape_from_scene (multi=False): with no curve or more than
\* one curve selected in the host the preview keeps its outline
C20_ShapeNeedsOneCurve ==
    (/\ Len(hist) >= 1
     /\ hist[1].op = "get_shape_from_scene"
     /\ Cardinality(OfType(hist[1].maya, {"nurbsCurve"})) # 1)
        => pp_item = hist[1].pp /\ err = "none"

\* C20: create_btn ran while only a node that is no transform was selected
C20_Witness ==
    /\ CreatedWithoutSelection
    /\ hist[1].maya = {"lambert1"}
    /\ items = hist[1].items

\* C20: get_shape_from_scene ran with two curves selected
C20_TooManyReached ==
    /\ Len(hist) >= 1
    /\ hist[1].op = "get_shape_from_scene"
    /\ Cardinality(OfType(hist[1].maya, {"nurbsCurve"})) = 2

\* C20: create_btn ran with transforms selected and added a button naming them
C20_CreatedReached ==
    /\ Len(hist) >= 1
    /\ hist[1].op = "create_btn"
    /\ hist[1].maya = {"ctrl_a", "ctrl_d"}
    /\ \E i \in DOMAIN items \ DOMAIN hist[1].items :
          items[i].sel_objs = <<"ctrl_a", "ctrl_d">>

-----------------------------------------------------------------------------
\* the last operation was get_shape_from_scene with one curve selected in the
\* host; hist[1].sel_items holds the points sampled along it
SampledOneCurve ==
    /\ Len(hist) >= 1
    /\ hist[1].op = "get_shape_from_scene"
    /\ Cardinality(OfType(hist[1].maya, {"nurbsCurve"})) = 1

\* the x (axis = 1) or y (axis = 2) values of a list of points
Axis(points, axis) == {points[k][axis] : k \in 1..Len(points)}

Extent(points, axis) == RSub(RMax(Axis(points, axis)), RMin(Axis(points, axis)))

\* out is the list points shifted to start at the origin and scaled by one
\* factor on both axes, the larger extent becoming MINIMUM_SIZE
Normalized(points, out) ==
    /\ Len(out) = Len(points)
    /\ RMin(Axis(out, 1)) = R(0)
    /\ RMin(Axis(out, 2)) = R(0)
    /\ \A axis \in {1, 2} : RLeq(Extent(out, axis), R(MINIMUM_SIZE))
    /\ \E axis \in {1, 2} : Extent(out, axis) = R(MINIMUM_SIZE)
    /\ \A axis \in {1, 2}, other \in {1, 2}, j \in 1..Len(points), k \in 1..Len(points) :
          \* one factor f: out = (p - min) * f, so differences scale alike
          RMul(RSub(out[j][axis], out[k][axis]),
               RSub(points[j][other], points[k][other]))
            = RMul(RSub(points[j][axis], points[k][axis]),
                   RSub(out[j][other], out[k][other]))
    /\ \A axis \in {1, 2}, j \in 1..Len(points), k \in 1..Len(points) :
          RLeq(points[j][axis], points[k][axis]) => RLeq(out[j][axis], out[k][axis])

\* C23: for every list of points sampled from a host curve get_shape_from_scene
\* produces normalized points of the same count and order, with minimum x and
\* minimum y 0, one scale factor on both axes, the larger extent equal to
\* MINIMUM_SIZE and the smaller at most that; it fails for no sampled curve.
C23_Normalization ==
    SampledOneCurve
        => /\ err = "none"
           /\ Normalized(hist[1].sel_items, pp_item.curr_coords)

\* C23, the case the code handles: a curve whose samples differ on the x or
\* the y axis is normalized as described
C23_NormalizationWithExtent ==
    (SampledOneCurve /\ ~no_extent(hist[1].sel_items))
        => /\ err = "none"
           /\ Normalized(hist[1].sel_items, pp_item.curr_coords)

\* C23: a curve whose samples all coincide in x and y made the scale factor
\* MINIMUM_SIZE / 0.0
C23_Witness ==
    /\ SampledOneCurve
    /\ no_extent(hist[1].sel_items)
    /\ err = "ZeroDivisionError"
    /\ pp_item = hist[1].pp

\* C23: a curve with extent was taken over into the preview
C23_NormalizedReached ==
    /\ SampledOneCurve
    /\ ~no_extent(hist[1].sel_items)
    /\ pp_item.curr_coords # hist[1].pp.curr_coords

-----------------------------------------------------------------------------
\* the last operation was update_btn_selection on the selected buttons, at
\* least one and no image among them (the host selection is not changed by it)
UpdatedSelectionOfShapes ==
    /\ Len(hist) >= 1
    /\ hist[1].op = "update_btn_selection"
    /\ hist[1].sel_items = <<>>
    /\ hist[1].sel # {}
    /\ hist[1].sel \subseteq ButtonsOf(hist[1].items)
    /\ maya_sel = hist[1].maya

\* the targets name the host selection, the other buttons name what they did
NamesTakenFromHost ==
    /\ err = "none"
    /\ ButtonsOf(items) = ButtonsOf(hist[1].items)
    /\ \A i \in hist[1].sel : items[i].sel_objs = ls({})
    /\ \A i \in ButtonsOf(items) \ hist[1].sel :
          items[i].sel_objs = hist[1].items[i].sel_objs

\* C30: after update_btn_selection on a non-empty set of target shapes each
\* target's list of referenced names equals the host's current selection, the
\* empty host selection included, and the names of all other shapes are
\* unchanged.
C30_NamesAreHostSelection == UpdatedSelectionOfShapes => NamesTakenFromHost

\* C30, the case the code handles: a host selection that is not empty
C30_NamesAreNonEmptyHostSelection ==
    (UpdatedSelectionOfShapes /\ maya_sel # {}) => NamesTakenFromHost

\* C30: with nothing selected in the host the target kept its names
C30_Witness ==
    /\ UpdatedSelectionOfShapes
    /\ maya_sel = {}
    /\ hist[1].sel = {1}
    /\ items[1].sel_objs = hist[1].items[1].sel_objs
    /\ items[1].sel_objs # <<>>

\* C30: a target took two host names, the other button kept its own
C30_TakenReached ==
    /\ UpdatedSelectionOfShapes
    /\ hist[1].sel = {1}
    /\ items[1].sel_objs = <<"ctrl_a", "ctrl_d">>
    /\ items[2].sel_objs = hist[1].items[2].sel_objs

-----------------------------------------------------------------------------
\* the last operation took the reference shape as its pivot: a mirror in
\* 'Ref Shape' mode or an align, with a reference set and items selected
PivotUsed ==
    /\ Len(hist) >= 1
    /\ \/ hist[1].op = "mirror_sel_btns" /\ hist[1].mirror_on = MIRROR_ONS[2]
       \/ hist[1].op \in {"align_by_x", "align_by_y"}
    /\ hist[1].ref # NoItem
    /\ hist[1].sel # {}

\* C25: in every reachable state the tab's reference shape is either unset or
\* a shape currently present in the tab's scene; after delete_btn removes the
\* reference shape, later mirror ('Ref Shape' mode) and align operations do
\* not use the deleted shape as pivot.
C25_ReferencePresent ==
    /\ ref_item = NoItem \/ ref_item \in ButtonsOf(items)
    /\ PivotUsed => hist[1].ref \in ButtonsOf(hist[1].items)

\* C25: delete_btn removed the shape that is the tab's reference and the tab
\* still refers to it
C25_Witness ==
    /\ Len(hist) >= 1
    /\ hist[1].op = "delete_btn"
    /\ hist[1].ref \in hist[1].sel
    /\ ref_item = hist[1].ref
    /\ ref_item \notin DOMAIN items

\* C25: a button was aligned on the center of the reference deleted before
C25_DeletedPivotUsed ==
    /\ PivotUsed
    /\ hist[1].op = "align_by_x"
    /\ hist[1].ref \notin DOMAIN hist[1].items
    /\ hist[1].sel = {1}
    /\ err = "none"
    /\ items[1].pos # hist[1].items[1].pos

-----------------------------------------------------------------------------
\* the shapes the view persists as selected (a None entry is no shape)
PersistedShapes == ShapesOf(Persisted)

\* no gesture is under way
AtRest == ~left_down

\* the last three steps: update_btn cleared the scene selection, then a plain
\* press on a shape that was not selected and a release elsewhere (a drag)
DraggedAfterUpdate ==
    /\ Len(hist) >= 3
    /\ hist[3].op = "update_btn" /\ hist[3].sel # {}
    /\ hist[2].op = "mousePressEvent" /\ hist[2].modifiers = {}
    /\ hist[2].pressed_on # NoItem /\ hist[2].pressed_on \notin hist[3].sel
    /\ hist[1].op = "leftMouseButtonRelease" /\ hist[1].moved /\ hist[1].drag

\* C26: in every state reached by pointer gestures interleaved with update_btn
\* the view's persisted selection holds exactly the shapes selected in the
\* scene; so after update_btn cleared the scene selection a Replace-mode drag
\* of an unselected shape selects only that shape.
C26_PersistedInSync ==
    /\ AtRest => PersistedShapes = ShapesOf(selected)
    /\ DraggedAfterUpdate => ShapesOf(selected) = {hist[2].pressed_on}

\* C26, what the gestures alone keep: until an editing handler has run, the
\* persisted shapes are the shapes selected in the scene
C26_InSyncByGestures ==
    (AtRest /\ nops = 0) => PersistedShapes = ShapesOf(selected)

\* C26: update_btn cleared the scene selection and the view still persists the
\* buttons it updated
C26_Witness ==
    /\ Len(hist) >= 1
    /\ hist[1].op = "update_btn"
    /\ err = "none"
    /\ selected = {}
    /\ PersistedShapes = hist[1].sel
    /\ PersistedShapes # {}

\* C26: the drag after update_btn brought the updated button back into the
\* selection, next to the dragged one
C26_StaleReselected ==
    /\ DraggedAfterUpdate
    /\ hist[3].sel \subseteq selected
    /\ hist[2].pressed_on \in selected

-----------------------------------------------------------------------------
\* tabs_dict has the keys 0..count-1 and maps each to the scene of the tab at
\* that index; curr_scene is the scene of the tab shown, None without tabs
BookkeepingRight ==
    /\ DOMAIN tabs_dict = 0..(Len(tabs) - 1)
    /\ Len(tab_scenes) = Len(tabs)
    /\ \A k \in DOMAIN tabs_dict : tabs_dict[k] = tab_scenes[k + 1]
    /\ curr_scene = IF curr_tab = 0 THEN NoItem ELSE tab_scenes[curr_tab]
    /\ curr_scene = NoItem <=> Len(tabs) = 0

\* the last operation created a tab in a window that had none
CreatedFirstTab ==
    /\ Len(hist) >= 1
    /\ hist[1].op = "create_tab"
    /\ hist[1].arg # ""
    /\ hist[1].tabs = <<>>

\* C24: after any sequence of create_tab, remove_tab and tab switches
\* tabs_dict has exactly the keys 0..count-1 and maps each index to the scene
\* of the tab at that index, and curr_scene is the scene of the tab shown (None
\* exactly when there are no tabs); creating a tab after all tabs have been
\* removed succeeds without error.
C24_TabBookkeeping ==
    /\ BookkeepingRight
    /\ CreatedFirstTab => err = "none" /\ Len(tabs) = 1

\* C24, what the code keeps: the bookkeeping is right after every operation,
\* and no operation other than the first create_tab of an empty window raises
C24_BookkeepingKept ==
    /\ BookkeepingRight
    /\ ~CreatedFirstTab => err = "none"

\* C24: a tab was created after the last one was removed: tab_changed ran on
\* curr_scene None
C24_Witness ==
    /\ CreatedFirstTab
    /\ hist[1].curr_scene = NoItem
    /\ err = "AttributeError"
    /\ Len(tabs) = 1

\* C24: the first of two tabs was removed while shown; the other one took its
\* index and the bookkeeping is right
C24_RemovedReached ==
    /\ Len(hist) >= 1
    /\ hist[1].op = "remove_tab"
    /\ Len(hist[1].tabs) = 2
    /\ hist[1].curr_tab = 1
    /\ Len(tabs) = 1
    /\ curr_scene = hist[1].tab_scenes[2]
    /\ BookkeepingRight

-----------------------------------------------------------------------------
(* The zoom level and the scale of the view under wheel events. *)

\* 1.25^n as a scale of the view
PowerOfZoomInFactor(n) == <<n * zoomInFactor[1], n * zoomInFactor[2]>>

\* the zoom level the last wheel event asked for
AskedFor(h) == IF h.angle > 0 THEN h.zoom + zoomStep ELSE h.zoom - zoomStep

\* C28: after any sequence of wheel events the zoom level is an integer of
\* [0, 500] and the scale of the view is 1.25^(zoom - 5); a wheel step that would
\* leave the range changes neither the scale nor the zoom level, and a zoom-in
\* step followed by a zoom-out step, both inside the range, restores both.
C28_ZoomBounds ==
    /\ zoom \in zoomRange[1]..zoomRange[2]
    /\ view_scale = PowerOfZoomInFactor(zoom - NewZoom.zoom)
    /\ (Len(hist) >= 1 /\ AskedFor(hist[1]) \notin zoomRange[1]..zoomRange[2])
          => (zoom = hist[1].zoom /\ view_scale = hist[1].view_scale)
    /\ (/\ Len(hist) >= 2
        /\ hist[2].angle > 0 /\ hist[2].zoom < zoomRange[2]
        /\ hist[1].angle < 0)
          => (zoom = hist[2].zoom /\ view_scale = hist[2].view_scale)

\* a zoom-in step at the upper end of the range was clamped
C28_Witness ==
    /\ Len(hist) >= 1
    /\ hist[1].angle > 0
    /\ hist[1].zoom = zoomRange[2]
    /\ zoom = zoomRange[2]

\* a zoom-out step at the lower end of the range was clamped
C28_ClampedBelowReached ==
    /\ Len(hist) >= 1
    /\ hist[1].angle < 0
    /\ hist[1].zoom = zoomRange[1]
    /\ zoom = zoomRange[1]

\* a zoom-in step and then a zoom-out step were taken inside the range
C28_RestoredReached ==
    /\ Len(hist) >= 2
    /\ hist[2].angle > 0 /\ hist[2].zoom < zoomRange[2]
    /\ hist[1].angle < 0
    /\ zoom = hist[2].zoom

-----------------------------------------------------------------------------
(* The display settings of the host's viewport across take_screenshot. *)

ShotTaken == Len(hist) >= 1 /\ hist[1].op = "take_screenshot"

\* the folder of the tab could not be made
DirRefused == ShotTaken /\ hist[1].tab_dir = "refused"

\* no image was added to the tab
NoImageAdded == items = hist[1].items

\* C21: whenever take_screenshot ends, normally or because the folder of the
\* tab cannot be made or because a later step (listing the folder, the
\* capture, adding the image) fails, the display settings of the viewport are
\* those saved at its start; when the folder cannot be made the failure is
\* caught and no image is added to the tab.
C21_ViewportRestored ==
    /\ ShotTaken => viewport = hist[1].viewport
    /\ DirRefused => (err = "none" /\ NoImageAdded)

\* take_screenshot restores the settings when it runs to its end, and when
\* the folder cannot be made on an interpreter that defines WindowsError
C21_RestoredWhenCompleted ==
    (/\ ShotTaken
     /\ \/ hist[1].tab_dir = "refused" /\ hist[1].windows
        \/ /\ hist[1].tab_dir # "refused"
           /\ hist[1].capture = "none"
           /\ hist[1].curr_scene # NoItem)
        => (/\ viewport = hist[1].viewport
            /\ err = "none"
            /\ DirRefused => NoImageAdded)

\* a screenshot taken in a window without a tab: the file system and the
\* capture worked, the image could not be added, the viewport stays isolated
C21_Witness ==
    /\ ShotTaken
    /\ hist[1].tab_dir = "exists" /\ hist[1].capture = "none"
    /\ hist[1].curr_scene = NoItem
    /\ err = "AttributeError"
    /\ viewport # hist[1].viewport

\* a screenshot was added to the tab and the settings were put back
C21_AddedReached ==
    /\ ShotTaken
    /\ err = "none"
    /\ items # hist[1].items
    /\ viewport = hist[1].viewport
    /\ "allObjects" \in viewport

\* the folder could not be made and the failure was caught
C21_CaughtReached ==
    /\ DirRefused
    /\ hist[1].windows
    /\ err = "none"
    /\ NoImageAdded
    /\ "allObjects" \in viewport

-----------------------------------------------------------------------------
(* The entries of the context menu opened over a shape. *)

\* the last operation was the entry `action` of the menu opened over a shape
MenuEntryChosen(action) ==
    /\ Len(hist) >= 1
    /\ hist[1].op = "contextMenuEvent"
    /\ hist[1].action = action
    /\ hist[1].over_item \in ButtonsOf(hist[1].items)

\* exactly the shape `target` took the settings of the preview
UpdatedOnly(target) ==
    /\ ButtonsOf(items) = ButtonsOf(hist[1].items)
    /\ items[target].curr_shape = hist[1].pp.curr_shape
    /\ items[target].text = hist[1].pp.text
    /\ items[target].brush_col = hist[1].pp.brush_col
    /\ items[target].set_rect.w = hist[1].pp.set_rect.w
    /\ items[target].set_rect.h = hist[1].pp.set_rect.h
    /\ \A i \in ButtonsOf(items) \ {target} :
          AppearanceOf(items)[i] = AppearanceOf(hist[1].items)[i]

\* exactly the shape `target` names the host selection, when there is one
NamesOnly(target) ==
    /\ ButtonsOf(items) = ButtonsOf(hist[1].items)
    /\ hist[1].maya # {} => items[target].sel_objs = ls({})
    /\ \A i \in ButtonsOf(items) \ {target} :
          items[i].sel_objs = hist[1].items[i].sel_objs

\* exactly the shape `target` left the tab
DeletedOnly(target) ==
    /\ DOMAIN items = DOMAIN hist[1].items \ {target}
    /\ \A i \in DOMAIN items : items[i] = hist[1].items[i]

\* C29: 'Update Button', 'Update Button Selection' and 'Delete' chosen from the
\* menu opened over a shape apply update_btn, update_btn_selection and
\* delete_btn to exactly that shape, whatever is selected, and end without an
\* error; 'Set as Ref Button' makes that shape the reference shape of the tab.
C29_MenuActsOnShapeUnderCursor ==
    /\ MenuEntryChosen("Update Button")
          => (err = "none" /\ UpdatedOnly(hist[1].over_item))
    /\ MenuEntryChosen("Update Button Selection")
          => (err = "none" /\ NamesOnly(hist[1].over_item))
    /\ MenuEntryChosen("Delete")
          => (err = "none" /\ DeletedOnly(hist[1].over_item))
    /\ MenuEntryChosen("Set as Ref Button")
          => (err = "none" /\ ref_item = hist[1].over_item)

\* C29, the entry that works: 'Set as Ref Button' makes the shape under the
\* cursor the reference shape and changes nothing else
C29_SetAsRef ==
    MenuEntryChosen("Set as Ref Button")
        => (/\ err = "none"
            /\ ref_item = hist[1].over_item
            /\ items = hist[1].items
            /\ selected = hist[1].sel)

\* 'Delete' was chosen over a shape that is not selected: the call raised and
\* the shape is still in the tab
C29_Witness ==
    /\ MenuEntryChosen("Delete")
    /\ hist[1].over_item \notin hist[1].sel
    /\ err = "TypeError"
    /\ hist[1].over_item \in DOMAIN items

\* 'Set as Ref Button' was chosen over a shape that is neither selected nor
\* the reference shape
C29_SetAsRefReached ==
    /\ MenuEntryChosen("Set as Ref Button")
    /\ hist[1].over_item \notin hist[1].sel
    /\ hist[1].ref # hist[1].over_item
    /\ ref_item = hist[1].over_item

-----------------------------------------------------------------------------
(* The flags of the items and the edit mode of the window. *)

\* the items of tab k
ItemsOfTab(k) == {scene_of_tab(k)[i] : i \in DOMAIN scene_of_tab(k)}

\* no shape or image of any tab can be moved
NothingMovable ==
    \A k \in 1..Len(tabs) : \A item \in ItemsOfTab(k) : "ItemIsMovable" \notin item.flags

\* every shape and image of every tab can be selected and moved
AllEditable ==
    \A k \in 1..Len(tabs) : \A item \in ItemsOfTab(k) :
        {"ItemIsSelectable", "ItemIsMovable"} \subseteq item.flags

\* the last two operations were toggle_edit_mode
ToggledTwice ==
    /\ Len(hist) >= 2
    /\ hist[1].op = "toggle_edit_mode"
    /\ hist[2].op = "toggle_edit_mode"

\* C27: whenever edit_mode is False no shape or image in any tab is movable,
\* and whenever edit_mode is True every shape and image is selectable and
\* movable, after any sequence of toggle_edit_mode, create_btn (from the canvas
\* context menu too), mirror in Duplicate mode, take_screenshot and
\* load_xml_file; toggling edit mode twice restores the flags of every item.
C27_EditModeFlags ==
    /\ ~edit_mode => NothingMovable
    /\ edit_mode => AllEditable
    /\ ToggledTwice => all_flags = hist[2].flags

\* C27, the half the code keeps: in edit mode every item is selectable and
\* movable
C27_EditableInEditMode == edit_mode => AllEditable

\* C27, what toggle_edit_mode itself does: right after it the flags of every
\* item are those of the mode
C27_ToggleSetsFlags ==
    (Len(hist) >= 1 /\ hist[1].op = "toggle_edit_mode")
        => (IF edit_mode THEN AllEditable ELSE NothingMovable)

\* with edit mode off a shape was made from the context menu of the canvas,
\* and it can be moved
C27_Witness ==
    /\ ~edit_mode
    /\ Len(hist) >= 1
    /\ hist[1].op = "create_btn"
    /\ DOMAIN items # DOMAIN hist[1].items
    /\ \E i \in DOMAIN items \ DOMAIN hist[1].items : "ItemIsMovable" \in items[i].flags

\* with edit mode off a file holding an image was loaded, and the image can
\* be moved
C27_LoadedImageReached ==
    /\ ~edit_mode
    /\ Len(hist) >= 1
    /\ hist[1].op = "load_xml_file"
    /\ \E i \in DOMAIN items : is_image(items, i) /\ "ItemIsMovable" \in items[i].flags

\* with edit mode off a duplicate was made by Mirror, and it can be moved
C27_DuplicateReached ==
    /\ ~edit_mode
    /\ Len(hist) >= 1
    /\ hist[1].op = "mirror_sel_btns"
    /\ \E i \in DOMAIN items \ DOMAIN hist[1].items : "ItemIsMovable" \in items[i].flags

\* edit mode was switched off and on again in a window whose flags followed
\* the mode, and the flags came back
C27_ToggledTwiceReached ==
    /\ ToggledTwice
    /\ edit_mode
    /\ all_flags = hist[2].flags
    /\ Len(tabs) >= 2

-----------------------------------------------------------------------------
(* The drawn polygon of a shape and its bounding rectangle. *)

\* every shape of the window: the buttons of every tab and the preview
EveryShape ==
    {pp_item} \cup UNION {{scene_of_tab(k)[i] : i \in ButtonsOf(scene_of_tab(k))} :
                             k \in 1..Len(tabs)}

\* the normalized point p drawn in a rectangle of the given width and height
Drawn(p, width, height) ==
    <<RDiv(RMul(p[1], R(width)), R(25)), RDiv(RMul(p[2], R(height)), R(25))>>

\* the vertices of the polygon are the four corners of the rectangle
IsTheRectangle(polygon, rect) ==
    /\ Len(polygon) \in {4, 5}
    /\ {polygon[i] : i \in 1..Len(polygon)}
          = {<<R(0), R(0)>>, <<R(rect.w), R(0)>>, <<R(rect.w), R(rect.h)>>,
             <<R(0), R(rect.h)>>}

\* the polygon of the shape is derived from its bounding rectangle
PolygonDerived(b) ==
    IF b.curr_shape = "Custom"
    THEN /\ Len(b.set_polygon) = Len(b.curr_coords)
         /\ \A i \in 1..Len(b.curr_coords) :
               b.set_polygon[i] = Drawn(b.curr_coords[i], b.set_rect.w, b.set_rect.h)
    ELSE IsTheRectangle(b.set_polygon, b.set_rect)

\* the last operation was a resize of the preview that was carried out
Resized ==
    /\ Len(hist) >= 1
    /\ hist[1].op \in {"update_width", "update_height"}
    /\ err = "none"

\* rectangles a shape can be resized to
SomeRects == {[w |-> 25, h |-> 25], [w |-> 70, h |-> 35], [w |-> 200, h |-> 110]}

\* C22: after any sequence of update_bounding_rect, update_curr_shape,
\* update_polygon, update_btn, mirror and XML load the polygon of every shape
\* is derived from its bounding rectangle: point i of a Custom shape is
\* (x_i * width / 25, y_i * height / 25) for its i-th normalized point, the
\* polygon of a Rect or Rounded Rect is the bounding rectangle; and a resize
\* changes neither the normalized points nor their number.
C22_PolygonFollowsRect ==
    /\ \A b \in EveryShape : PolygonDerived(b)
    /\ Resized => pp_item.curr_coords = hist[1].pp.curr_coords
    /\ \A b \in EveryShape : \A rect \in SomeRects :
          /\ update_bounding_rect(b, rect).curr_coords = b.curr_coords
          /\ update_bounding_rect(b, rect).set_rect = rect
          /\ PolygonDerived(update_bounding_rect(b, rect))

\* the Custom preview was made wider and its polygon followed
C22_Witness ==
    /\ Resized
    /\ hist[1].op = "update_width"
    /\ pp_item.curr_shape = "Custom"
    /\ pp_item.set_rect.w # hist[1].pp.set_rect.w
    /\ pp_item.set_polygon # hist[1].pp.set_polygon

\* update_btn gave a rectangle of the tab the Custom outline of a resized
\* preview
C22_UpdatedReached ==
    /\ Len(hist) >= 1
    /\ hist[1].op = "update_btn"
    /\ err = "none"
    /\ \E i \in ButtonsOf(items) :
          /\ items[i].curr_shape = "Custom"
          /\ hist[1].items[i].curr_shape # "Custom"
          /\ items[i].set_rect.w = 150

\* a Custom shape was mirrored in place
C22_MirroredReached ==
    /\ Len(hist) >= 1
    /\ hist[1].op = "mirror_sel_btns"
    /\ hist[1].mirror_type = "Use Existing"
    /\ \E i \in ButtonsOf(items) :
          /\ items[i].curr_shape = "Custom"
          /\ items[i].curr_coords # hist[1].items[i].curr_coords

\* a tab holding a Custom shape was loaded from a file
C22_LoadedReached ==
    /\ Len(hist) >= 1
    /\ hist[1].op = "load_xml_file"
    /\ Len(tabs) >= 2
    /\ \E i \in ButtonsOf(items) : items[i].curr_shape = "Custom"

====
